---- MODULE Spec2Model ----
(***************************************************************************)
(* A model of the runtime I/O engine of drivers/md/dm-thin.c: the bio      *)
(* prison, the deferred set, the worker and the mapping orchestration.     *)
(*                                                                         *)
(* The pool's state is passed through the operators as one record P, so   *)
(* that every C function is an operator of the same name that maps the     *)
(* pool state before the call to the pool state after it.  The on-disk     *)
(* metadata store (dm-thin-metadata.c) and kcopyd are outside this file;   *)
(* they are modelled by their contract.                                    *)
(***************************************************************************)
EXTENDS Integers, Sequences, FiniteSets, TLC

(* ------------------------------ bounds -------------------------------- *)

\* Number of bios the host submits in one behaviour.
NBios == 2
\* Number of blocks of the data device.
NDataBlocks == 2
\* pool->low_water_mark, in blocks (positive: pool_ctr rejects 0).
LowWaterBlocks == 1
\* Number of injected failures (metadata, copier, data device) per behaviour.
MaxFaults == 1
\* DEFERRED_SET_SIZE, scaled down from 64 so that the ring wraps.
DEFERRED_SET_SIZE == 3
\* MAPPING_POOL_SIZE, scaled down from 1024: the reserve of the mapping
\* mempool.  A GFP_ATOMIC allocation can fail only once the reserve is used.
MAPPING_POOL_SIZE == 1
\* Threads that call bio_detain concurrently, and the bios they detain
\* (SpecPrison only).
NThreads == 2
NInmates == 3

\* Spec is run with NBios bios; SpecWide with one more, SpecCopier with two
\* more.
BioIds == 1..(NBios + 2)
Devs == {1, 2}
Virts == {0, 1}
\* The data device has NDataBlocks blocks, in SpecWide and SpecCopier one
\* more.
Blocks == 0..NDataBlocks
CellIds == 1..(NBios + 2)
MapIds == 1..(NBios + 2)
Slots == 0..(DEFERRED_SET_SIZE - 1)
Threads == 1..NThreads

NoCell == 0
NULL == 0
NoBlock == -1

(* ------------------------- sequence helpers --------------------------- *)

Range(s) == {s[i] : i \in 1..Len(s)}

Min(S) == CHOOSE x \in S : \A y \in S : x <= y

\* bio_list_merge(a, b): b's bios are appended after a's.
bio_list_merge(a, b) == a \o b

\* bio_list_add(l, bio): at the tail.
bio_list_add(l, b) == Append(l, b)

\* list_add(new, head): right after the head, so first in the list.
list_add(new, l) == <<new>> \o l

\* list_splice_init(list, head): list is inserted at the front of head.
list_splice_init(list, head) == list \o head

(* ----------------------------- bio prison ----------------------------- *)

FreeCell == [st |-> "free", key |-> <<>>, count |-> 0, bios |-> <<>>]

build_data_key(dev, b) == <<0, dev, b>>

build_virtual_key(dev, b) == <<1, dev, b>>

\* __search_bucket: the cell of the bucket whose key equals key, or none.
SearchBucket(cs, key) ==
  LET hit == {c \in CellIds : cs[c].st = "table" /\ cs[c].key = key}
  IN IF hit = {} THEN NoCell ELSE Min(hit)

\* mempool_alloc(prison->cell_pool, GFP_NOIO): a cell not in use.
CellAlloc(cs) == Min({c \in CellIds : cs[c].st = "free"})

CellAvailable(cs) == \E c \in CellIds : cs[c].st = "free"

\* The re-check of bio_detain after the lock was dropped for the allocation.
RecheckSkipped(cs, key) == NoCell

Recheck(cs, key) == SearchBucket(cs, key)

\* r = cell->count++; bio_list_add(&cell->bios, inmate)
CountAfter(cs, cell, inmate) ==
  [cells |-> [cs EXCEPT ![cell].count = @ + 1,
                        ![cell].bios = bio_list_add(@, inmate)],
   r |-> cs[cell].count + 1, ref |-> cell]

AddInmate(cs, cell, inmate) ==
  [cells |-> [cs EXCEPT ![cell].count = @ + 1,
                        ![cell].bios = bio_list_add(@, inmate)],
   r |-> cs[cell].count, ref |-> cell]

\* bio_detain from the point where the lock is retaken with cell2 allocated:
\* the re-check, the insertion of cell2 when the key is still absent, the
\* addition of the inmate and the release of an unused cell2.
DetainRelocked(cs, key, inmate, cell2) ==
  LET found == Recheck(cs, key)
      cell == IF found = NoCell THEN cell2 ELSE found
      cs1 == IF found = NoCell
             THEN [cs EXCEPT ![cell2] =
                     [st |-> "table", key |-> key, count |-> 0, bios |-> <<>>]]
             ELSE [cs EXCEPT ![cell2] = FreeCell]
  IN AddInmate(cs1, cell, inmate)

\* bio_detain with no other thread in the prison (the worker's use of it).
bio_detain(cs, key, inmate) ==
  LET cell == SearchBucket(cs, key)
  IN IF cell # NoCell
     THEN AddInmate(cs, cell, inmate)
     ELSE DetainRelocked([cs EXCEPT ![CellAlloc(cs)].st = "alloc"],
                         key, inmate, CellAlloc(cs))

\* __cell_release: the cell leaves the table and goes back to the mempool;
\* its bios are appended to inmates.
CellRelease(cs, cell, inmates) ==
  [cells |-> [cs EXCEPT ![cell] = FreeCell],
   bios |-> bio_list_merge(inmates, cs[cell].bios)]

(* ---------------------------- deferred set ---------------------------- *)

ds_init ==
  [current_entry |-> 0, sweeper |-> 0,
   count |-> [i \in Slots |-> 0],
   work_items |-> [i \in Slots |-> <<>>]]

ds_next(index) == (index + 1) % DEFERRED_SET_SIZE

\* ds_inc that counts the read in the oldest slot still swept.
ds_inc_oldest(d) ==
  [ds |-> [d EXCEPT !.count[d.sweeper] = @ + 1],
   entry |-> d.sweeper]

ds_inc(d) ==
  [ds |-> [d EXCEPT !.count[d.current_entry] = @ + 1],
   entry |-> d.current_entry]

\* __sweep with list_splice in place of list_splice_init: the work stays
\* linked to the slot it is taken from.
RECURSIVE SweepNoInit(_, _)
SweepNoInit(d, head) ==
  IF d.sweeper # d.current_entry /\ d.count[d.sweeper] = 0
  THEN SweepNoInit([d EXCEPT !.sweeper = ds_next(d.sweeper)],
                   list_splice_init(d.work_items[d.sweeper], head))
  ELSE IF d.sweeper = d.current_entry /\ d.count[d.sweeper] = 0
       THEN [ds |-> d,
             head |-> list_splice_init(d.work_items[d.sweeper], head)]
       ELSE [ds |-> d, head |-> head]

\* __sweep without its last statement: the loop only.
RECURSIVE SweepLoopOnly(_, _)
SweepLoopOnly(d, head) ==
  IF d.sweeper # d.current_entry /\ d.count[d.sweeper] = 0
  THEN SweepLoopOnly([d EXCEPT !.work_items[d.sweeper] = <<>>,
                               !.sweeper = ds_next(d.sweeper)],
                     list_splice_init(d.work_items[d.sweeper], head))
  ELSE [ds |-> d, head |-> head]

RECURSIVE Sweep(_, _)
Sweep(d, head) ==
  IF d.sweeper # d.current_entry /\ d.count[d.sweeper] = 0
  THEN Sweep([d EXCEPT !.work_items[d.sweeper] = <<>>,
                       !.sweeper = ds_next(d.sweeper)],
             list_splice_init(d.work_items[d.sweeper], head))
  ELSE IF d.sweeper = d.current_entry /\ d.count[d.sweeper] = 0
       THEN [ds |-> [d EXCEPT !.work_items[d.sweeper] = <<>>],
             head |-> list_splice_init(d.work_items[d.sweeper], head)]
       ELSE [ds |-> d, head |-> head]

\* ds_dec that does not call __sweep.
ds_dec_no_sweep(d, entry, head) ==
  IF d.count[entry] = 0
  THEN [ds |-> d, head |-> head, bug |-> TRUE]
  ELSE [ds |-> [d EXCEPT !.count[entry] = @ - 1], head |-> head,
        bug |-> FALSE]

\* ds_dec; bug is the BUG_ON(!entry->count).
ds_dec(d, entry, head) ==
  IF d.count[entry] = 0
  THEN [ds |-> d, head |-> head, bug |-> TRUE]
  ELSE LET s == Sweep([d EXCEPT !.count[entry] = @ - 1], head)
       IN [ds |-> s.ds, head |-> s.head, bug |-> FALSE]

\* ds_add_work that moves current_entry whatever count the next slot has.
ds_add_work_blind(d, work) ==
  IF d.sweeper = d.current_entry /\ d.count[d.current_entry] = 0
  THEN [ds |-> d, r |-> 0]
  ELSE [ds |-> [d EXCEPT !.work_items[d.current_entry] = list_add(work, @),
                         !.current_entry = ds_next(d.current_entry)],
        r |-> 1]

\* ds_add_work that leaves current_entry where it is.
ds_add_work_stay(d, work) ==
  IF d.sweeper = d.current_entry /\ d.count[d.current_entry] = 0
  THEN [ds |-> d, r |-> 0]
  ELSE [ds |-> [d EXCEPT !.work_items[d.current_entry] = list_add(work, @)],
        r |-> 1]

\* ds_add_work that never links the work: nothing is waited for.
ds_add_work_never(d, work) == [ds |-> d, r |-> 0]

\* ds_add_work: 0 when there is nothing to wait for, else the work is linked
\* to the current entry.
ds_add_work(d, work) ==
  IF d.sweeper = d.current_entry /\ d.count[d.current_entry] = 0
  THEN [ds |-> d, r |-> 0]
  ELSE LET next_entry == ds_next(d.current_entry)
           d1 == [d EXCEPT !.work_items[d.current_entry] = list_add(work, @)]
       IN [ds |-> IF d1.count[next_entry] = 0
                  THEN [d1 EXCEPT !.current_entry = next_entry]
                  ELSE d1,
           r |-> 1]

(* ------------------------------ state --------------------------------- *)

VARIABLES
  bio,                  \* the bios: what the host asked and where each stands
  deferred_bios,        \* pool->deferred_bios
  retry_list,           \* pool->retry_list
  prepared_mappings,    \* pool->prepared_mappings
  cells,                \* the prison: the cells of prison->cell_pool
  ds,                   \* pool->ds
  nm,                   \* the new_mapping structs of pool->mapping_pool
  next_mapping,         \* pool->next_mapping
  low_water_triggered,  \* pool->low_water_triggered
  zero_new_blocks,      \* pool->zero_new_blocks
  md,                   \* metadata: the mapping trees of the thin devices
  sm,                   \* metadata: reference counts of the data blocks
  wake,                 \* the worker's work item is queued on pool->wq
  wpc,                  \* where do_worker stands
  wmaps,                \* process_prepared_mappings' local list maps
  wbios,                \* process_deferred_bios' local list bios
  admitted,             \* number of bios the host has submitted
  faults,               \* number of failures injected so far
  oops,                 \* why the kernel has stopped (a BUG_ON, a use of
                        \* freed memory), or "" while it runs
  inserted,             \* history: the calls of dm_thin_insert_block
  nalloc,               \* history: number of new_mappings set up so far
  nr_blocks,            \* metadata: size of the data device, in blocks
  events,               \* history: dm_table_event calls since the last resume
  resumes,              \* history: what each call of pool_preresume returned
  disk,                 \* metadata: the mappings and the reference counts
                        \* as of the last commit
  lim,                  \* the limits of the run: bios, faults, kinds of bio
  life,                 \* SpecLife: the pool objects, the pool table and
                        \* the targets that hold a pool
  dsh,                  \* SpecDs: the callers of the deferred set, that is
                        \* the reads that hold an entry and the work that
                        \* was handed to ds_add_work
  hsh,                  \* SpecHash: the bucket count and hash mask of a
                        \* prison and the bucket of the last key hashed
  thr                   \* SpecPrison: the threads inside bio_detain

vars == <<bio, deferred_bios, retry_list, prepared_mappings, cells, ds, nm,
          next_mapping, low_water_triggered, zero_new_blocks, md, sm, wake,
          wpc, wmaps, wbios, admitted, faults, oops, inserted, nalloc,
          nr_blocks, events, resumes, disk, lim, life,
          dsh, hsh, thr>>

\* The pool state as one record.
Pool ==
  [bio |-> bio, deferred_bios |-> deferred_bios, retry_list |-> retry_list,
   prepared_mappings |-> prepared_mappings, cells |-> cells, ds |-> ds,
   nm |-> nm, next_mapping |-> next_mapping,
   low_water_triggered |-> low_water_triggered, md |-> md, sm |-> sm,
   wake |-> wake, faults |-> faults, oops |-> oops, inserted |-> inserted,
   nalloc |-> nalloc, nr_blocks |-> nr_blocks, events |-> events,
   resumes |-> resumes, disk |-> disk]

Becomes(P) ==
  /\ bio' = P.bio
  /\ deferred_bios' = P.deferred_bios
  /\ retry_list' = P.retry_list
  /\ prepared_mappings' = P.prepared_mappings
  /\ cells' = P.cells
  /\ ds' = P.ds
  /\ nm' = P.nm
  /\ next_mapping' = P.next_mapping
  /\ low_water_triggered' = P.low_water_triggered
  /\ md' = P.md
  /\ sm' = P.sm
  /\ wake' = P.wake
  /\ faults' = P.faults
  /\ oops' = P.oops
  /\ inserted' = P.inserted
  /\ nalloc' = P.nalloc
  /\ nr_blocks' = P.nr_blocks
  /\ events' = P.events
  /\ resumes' = P.resumes
  /\ disk' = P.disk

NewBio ==
  [st |-> "new", dev |-> 0, virt |-> 0, rw |-> "R", covers |-> FALSE,
   flush |-> FALSE, hook |-> "none", ptr |-> NULL, blk |-> NoBlock,
   r |-> NoBlock, parked |-> FALSE, commit |-> "none"]

FreeMapping ==
  [st |-> "free", linked |-> FALSE, prepared |-> FALSE, dev |-> 0,
   virt_block |-> 0, data_block |-> NoBlock, cell |-> NoCell, err |-> FALSE,
   bio |-> NULL, job |-> "none", nadd |-> 0, serial |-> 0, before |-> {}]

NoMapping == [block |-> NoBlock, shared |-> FALSE]

\* The failures an operation can be told to hit.
Faults ==
  {"none", "find", "free_count", "alloc", "commit", "insert", "kcopyd",
   "size", "resize"}

\* All the failures, those of the data device ("bio") and of a copy in
\* flight ("copy") included.
AllKinds == Faults \cup {"bio", "copy"}

\* The injected failure f hits this call, and the budget allows it.
Fails(P, f, name) ==
  f = name /\ name \in lim.kinds /\ P.faults < lim.faults

Injected(P) == [P EXCEPT !.faults = @ + 1]

wake_worker(P) == [P EXCEPT !.wake = TRUE]

\* The kernel stops; the first reason is kept.
Oops(P, why) == IF P.oops # "" THEN P ELSE [P EXCEPT !.oops = why]

(* ---------------- metadata store and copier (contract) ---------------- *)

\* dm_thin_find_block: the mapping of (dev, block), or NoMapping (-ENODATA).
dm_thin_find_block(P, dev, block) == P.md[dev][block]

\* dm_thin_insert_block: (dev, block) now points to data and is not shared;
\* the block it pointed to before loses one reference.
dm_thin_insert_block(P, dev, block, data) ==
  LET old == P.md[dev][block].block
      sm1 == IF old # NoBlock /\ old # data
             THEN [P.sm EXCEPT ![old] = @ - 1]
             ELSE P.sm
  IN [P EXCEPT !.md[dev][block] = [block |-> data, shared |-> FALSE],
               !.sm = sm1]

\* dm_pool_commit_metadata: the mappings and the reference counts become
\* the ones an unclean stop leaves behind.
dm_pool_commit_metadata(P) == [P EXCEPT !.disk = [md |-> P.md, sm |-> P.sm]]

\* dm_pool_get_free_block_count: a block is free when nothing refers to it
\* now and nothing referred to it at the last commit.
FreeBlocks(P) ==
  {b \in 0..(P.nr_blocks - 1) : P.sm[b] = 0 /\ P.disk.sm[b] = 0}

\* dm_pool_alloc_data_block: the first free block gets its first reference.
dm_pool_alloc_data_block(P) ==
  IF FreeBlocks(P) = {}
  THEN [P |-> P, r |-> "ENOSPC", block |-> NoBlock]
  ELSE [P |-> [P EXCEPT !.sm[Min(FreeBlocks(P))] = 1], r |-> "ok",
        block |-> Min(FreeBlocks(P))]

(* --------------------------- bio endio -------------------------------- *)

\* __maybe_add_mapping without the list_empty test.
MaybeAddAlways(P, m) ==
  IF P.nm[m].prepared
  THEN wake_worker([P EXCEPT !.prepared_mappings = list_add(m, @),
                             !.nm[m].linked = TRUE,
                             !.nm[m].nadd = @ + 1])
  ELSE P

\* __maybe_add_mapping
maybe_add_mapping(P, m) ==
  IF ~P.nm[m].linked /\ P.nm[m].prepared
  THEN wake_worker([P EXCEPT !.prepared_mappings = list_add(m, @),
                             !.nm[m].linked = TRUE,
                             !.nm[m].nadd = @ + 1])
  ELSE P

\* m->err = ...; m->prepared = 1; __maybe_add_mapping(m)
MarkPrepared(P, m, err) ==
  maybe_add_mapping([P EXCEPT !.nm[m].err = err, !.nm[m].prepared = TRUE], m)

\* copy_complete: kcopyd's callback for the copy or zero of mapping m.
copy_complete(P, m, err) ==
  MarkPrepared([P EXCEPT !.nm[m].job = "done"], m, err)

\* overwrite_endio: the bio that overwrites the whole new block has ended.
\* The bio stays in its cell; the host is not told yet.
overwrite_endio(P, b, err) ==
  MarkPrepared([P EXCEPT !.bio[b].st = "held"], P.bio[b].ptr, err)

\* The loop of shared_read_endio over the mappings ds_dec handed back:
\* list_del, INIT_LIST_HEAD, __maybe_add_mapping.
RECURSIVE AddDrained(_, _)
AddDrained(P, mappings) ==
  IF mappings = <<>>
  THEN P
  ELSE AddDrained(
         maybe_add_mapping([P EXCEPT !.nm[Head(mappings)].linked = FALSE],
                           Head(mappings)),
         Tail(mappings))

\* The host is told the bio has ended.
Complete(P, b, err) ==
  [P EXCEPT !.bio[b] = [NewBio EXCEPT !.st = IF err THEN "err" ELSE "ok"]]

\* shared_read_endio without its ds_dec.
SharedReadNoDec(P, b, err) == Complete(P, b, err)

\* shared_read_endio
shared_read_endio(P, b, err) ==
  LET d == ds_dec(P.ds, P.bio[b].ptr, <<>>)
      P1 == [Complete(P, b, err) EXCEPT !.ds = d.ds]
  IN IF d.bug THEN Oops(P1, "ds_dec") ELSE AddDrained(P1, d.head)

\* bio_endio: the bio's bi_end_io is called.
bio_endio(P, b, err) ==
  CASE P.bio[b].hook = "overwrite" -> overwrite_endio(P, b, err)
    [] P.bio[b].hook = "shared" -> shared_read_endio(P, b, err)
    [] OTHER -> Complete(P, b, err)

bio_io_error(P, b) == bio_endio(P, b, TRUE)

\* generic_make_request after remap: the bio is at the data device.
Issue(P, b, block) ==
  [P EXCEPT !.bio[b].st = "issued", !.bio[b].blk = block]

\* remap_and_issue without the commit for REQ_FLUSH and REQ_FUA.
remap_and_issue_no_commit(P, b, block, f) == Issue(P, b, block)

\* remap_and_issue.  commit records how dm_pool_commit_metadata went for a
\* bio that carries REQ_FLUSH or REQ_FUA.
remap_and_issue(P, b, block, f) ==
  IF P.bio[b].flush
  THEN IF Fails(P, f, "commit")
       THEN bio_io_error([Injected(P) EXCEPT !.bio[b].commit = "failed"], b)
       ELSE Issue([dm_pool_commit_metadata(P) EXCEPT !.bio[b].commit = "ok"],
                  b, block)
  ELSE Issue(P, b, block)

(* --------------------------- orchestrator ----------------------------- *)

\* The bios of a released cell are failed one by one.
RECURSIVE ErrorAll(_, _)
ErrorAll(P, bios) ==
  IF bios = <<>>
  THEN P
  ELSE ErrorAll(bio_io_error(P, Head(bios)), Tail(bios))

\* cell_error.  Releasing a cell that is not in the table is a use of freed
\* memory.
cell_error(P, cell) ==
  IF P.cells[cell].st # "table"
  THEN Oops(P, "freed cell")
  ELSE LET rel == CellRelease(P.cells, cell, <<>>)
       IN ErrorAll([P EXCEPT !.cells = rel.cells], rel.bios)

\* cell_release_singleton, with its two BUG_ONs.
cell_release_singleton(P, cell, b) ==
  LET rel == CellRelease(P.cells, cell, <<>>)
  IN IF rel.bios # <<b>>
     THEN Oops(P, "cell_release_singleton")
     ELSE [P EXCEPT !.cells = rel.cells]

\* cell_defer with the bios of the cell put at the head of deferred_bios.
cell_defer_head(P, cell) ==
  wake_worker([P EXCEPT
    !.cells = CellRelease(P.cells, cell, <<>>).cells,
    !.deferred_bios = CellRelease(P.cells, cell, <<>>).bios \o @])

\* cell_defer: the bios of the cell go to the tail of deferred_bios.
cell_defer(P, cell) ==
  wake_worker([P EXCEPT
    !.cells = CellRelease(P.cells, cell, <<>>).cells,
    !.deferred_bios = CellRelease(P.cells, cell, P.deferred_bios).bios])

\* cell_defer_except that leaves no bio out.
cell_defer_all(P, cell, exception) ==
  LET rel == CellRelease(P.cells, cell, <<>>)
  IN wake_worker([P EXCEPT !.cells = rel.cells,
                           !.deferred_bios = bio_list_merge(@, rel.bios)])

\* cell_defer_except: as cell_defer, but exception is left out.
cell_defer_except(P, cell, exception) ==
  LET rel == CellRelease(P.cells, cell, <<>>)
  IN wake_worker([P EXCEPT
       !.cells = rel.cells,
       !.deferred_bios =
          bio_list_merge(@, SelectSeq(rel.bios, LAMBDA x : x # exception))])

\* retry_later for each bio of bios; parked records that it happened.
RECURSIVE RetryAll(_, _)
RetryAll(P, bios) ==
  IF bios = <<>>
  THEN P
  ELSE RetryAll([P EXCEPT !.retry_list = bio_list_add(@, Head(bios)),
                          !.bio[Head(bios)].parked = TRUE],
                Tail(bios))

\* no_space that fails the bios of the cell instead of parking them.
no_space_error(P, cell) ==
  LET rel == CellRelease(P.cells, cell, <<>>)
  IN ErrorAll([P EXCEPT !.cells = rel.cells], rel.bios)

\* no_space: every bio of the cell is parked by retry_later.
no_space(P, cell) ==
  LET rel == CellRelease(P.cells, cell, <<>>)
  IN RetryAll([P EXCEPT !.cells = rel.cells], rel.bios)

\* alloc_data_block without the test of the low water mark.
alloc_data_block_quiet(P, f) ==
  IF Fails(P, f, "free_count")
  THEN [P |-> Injected(P), r |-> "EIO", block |-> NoBlock]
  ELSE IF Fails(P, f, "alloc")
       THEN [P |-> Injected(P), r |-> "EIO", block |-> NoBlock]
       ELSE dm_pool_alloc_data_block(P)

\* alloc_data_block
alloc_data_block(P, f) ==
  IF Fails(P, f, "free_count")
  THEN [P |-> Injected(P), r |-> "EIO", block |-> NoBlock]
  ELSE LET P1 == IF Cardinality(FreeBlocks(P)) <= LowWaterBlocks
                    /\ ~P.low_water_triggered
                 THEN [P EXCEPT !.low_water_triggered = TRUE,
                                !.events = @ + 1]
                 ELSE P
       IN IF Fails(P1, f, "alloc")
          THEN [P |-> Injected(P1), r |-> "EIO", block |-> NoBlock]
          ELSE dm_pool_alloc_data_block(P1)

mempool_free(P, m) == [P EXCEPT !.nm[m] = FreeMapping]

\* get_next_mapping and the initialisation of the mapping that schedule_copy
\* and schedule_zero share.
InitMapping(P, dev, virt_block, data_block, cell) ==
  [P EXCEPT !.next_mapping = NULL,
            !.nalloc = @ + 1,
            !.nm[P.next_mapping] =
               [FreeMapping EXCEPT !.st = "active", !.dev = dev,
                                   !.virt_block = virt_block,
                                   !.data_block = data_block,
                                   !.cell = cell,
                                   !.serial = P.nalloc + 1]]

\* m->bio = bio; save_and_set_endio(..., overwrite_endio); remap_and_issue
Overwrite(P, m, b, block, f) ==
  remap_and_issue([P EXCEPT !.nm[m].bio = b,
                            !.bio[b].hook = "overwrite",
                            !.bio[b].ptr = m],
                  b, block, f)

\* dm_kcopyd_copy / dm_kcopyd_zero and the failure branch after it.
Submit(P, m, job, cell, f) ==
  IF Fails(P, f, "kcopyd")
  THEN cell_error(mempool_free(Injected(P), m), cell)
  ELSE [P EXCEPT !.nm[m].job = job]

\* The shared reads that have incremented the deferred set and not yet
\* decremented it.
SharedReads(P) == {b \in BioIds : P.bio[b].hook = "shared"}

\* schedule_copy that issues the bio that covers the block to data_origin.
schedule_copy_origin(P, dev, virt_block, data_origin, data_dest, cell, b, f) ==
  IF P.next_mapping = NULL
  THEN Oops(P, "get_next_mapping")
  ELSE LET m == P.next_mapping
           P1 == InitMapping(P, dev, virt_block, data_dest, cell)
           w == ds_add_work(P1.ds, m)
           P2 == [P1 EXCEPT !.ds = w.ds, !.nm[m].linked = (w.r = 1),
                            !.nm[m].before = SharedReads(P)]
       IN IF P.bio[b].covers
          THEN Overwrite(P2, m, b, data_origin, f)
          ELSE Submit(P2, m, "copy", cell, f)

\* schedule_copy that hands every bio to kcopyd, whatever it covers.
schedule_copy_always(P, dev, virt_block, data_origin, data_dest, cell, b, f) ==
  IF P.next_mapping = NULL
  THEN Oops(P, "get_next_mapping")
  ELSE LET m == P.next_mapping
           P1 == InitMapping(P, dev, virt_block, data_dest, cell)
           w == ds_add_work(P1.ds, m)
           P2 == [P1 EXCEPT !.ds = w.ds, !.nm[m].linked = (w.r = 1),
                            !.nm[m].before = SharedReads(P)]
       IN Submit(P2, m, "copy", cell, f)

\* schedule_copy
schedule_copy(P, dev, virt_block, data_origin, data_dest, cell, b, f) ==
  IF P.next_mapping = NULL
  THEN Oops(P, "get_next_mapping")
  ELSE LET m == P.next_mapping
           P1 == InitMapping(P, dev, virt_block, data_dest, cell)
           w == ds_add_work(P1.ds, m)
           P2 == [P1 EXCEPT !.ds = w.ds, !.nm[m].linked = (w.r = 1),
                            !.nm[m].before = SharedReads(P)]
       IN IF P.bio[b].covers
          THEN Overwrite(P2, m, b, data_dest, f)
          ELSE Submit(P2, m, "copy", cell, f)

\* schedule_zero that issues the bio at once whatever it covers.
schedule_zero_at_once(P, dev, virt_block, data_block, cell, b, f) ==
  IF P.next_mapping = NULL
  THEN Oops(P, "get_next_mapping")
  ELSE Overwrite(InitMapping(P, dev, virt_block, data_block, cell),
                 P.next_mapping, b, data_block, f)

\* schedule_zero
schedule_zero(P, dev, virt_block, data_block, cell, b, f) ==
  IF P.next_mapping = NULL
  THEN Oops(P, "get_next_mapping")
  ELSE LET m == P.next_mapping
           P1 == InitMapping(P, dev, virt_block, data_block, cell)
       IN IF ~zero_new_blocks \/ P.bio[b].covers
          THEN Overwrite(P1, m, b, data_block, f)
          ELSE Submit(P1, m, "zero", cell, f)

\* break_sharing that lets the write go to the shared block.
break_sharing_in_place(P, b, block, lookup_result, cell, f) ==
  remap_and_issue(cell_release_singleton(P, cell, b), b,
                  lookup_result.block, f)

\* break_sharing
break_sharing(P, b, block, lookup_result, cell, f) ==
  LET a == alloc_data_block(P, f)
  IN CASE a.r = "ok" ->
            schedule_copy(a.P, P.bio[b].dev, block, lookup_result.block,
                          a.block, cell, b, f)
       [] a.r = "ENOSPC" -> no_space(a.P, cell)
       [] OTHER -> cell_error(a.P, cell)

\* The read branch of process_shared_bio.
SharedRead(P, b, lookup_result, cell, f) ==
  LET i == ds_inc(P.ds)
      P1 == [P EXCEPT !.ds = i.ds, !.bio[b].hook = "shared",
                      !.bio[b].ptr = i.entry]
      P2 == cell_release_singleton(P1, cell, b)
  IN IF P2.oops # "" THEN P2 ELSE remap_and_issue(P2, b, lookup_result.block, f)

\* process_shared_bio that goes on when bio_detain finds the cell occupied.
ProcessSharedNoReturn(P, b, block, lookup_result, f) ==
  LET key == build_data_key(P.bio[b].dev, lookup_result.block)
      d == bio_detain(P.cells, key, b)
      P1 == [P EXCEPT !.cells = d.cells]
  IN IF P.bio[b].rw = "W"
     THEN break_sharing(P1, b, block, lookup_result, d.ref, f)
     ELSE P1

\* process_shared_bio that breaks sharing for reads as for writes.
ProcessSharedBreaksAlways(P, b, block, lookup_result, f) ==
  LET key == build_data_key(P.bio[b].dev, lookup_result.block)
      d == bio_detain(P.cells, key, b)
      P1 == [P EXCEPT !.cells = d.cells]
  IN IF d.r # 0
     THEN P1
     ELSE break_sharing(P1, b, block, lookup_result, d.ref, f)

\* process_shared_bio
\* process_shared_bio that goes on when bio_detain found the cell occupied.
ProcessSharedIgnoresCell(P, b, block, lookup_result, f) ==
  LET key == build_data_key(P.bio[b].dev, lookup_result.block)
      d == bio_detain(P.cells, key, b)
      P1 == [P EXCEPT !.cells = d.cells]
  IN IF P.bio[b].rw = "W"
     THEN break_sharing(P1, b, block, lookup_result, d.ref, f)
     ELSE SharedRead(P1, b, lookup_result, d.ref, f)

process_shared_bio(P, b, block, lookup_result, f) ==
  LET key == build_data_key(P.bio[b].dev, lookup_result.block)
      d == bio_detain(P.cells, key, b)
      P1 == [P EXCEPT !.cells = d.cells]
  IN IF d.r # 0
     THEN P1
     ELSE IF P.bio[b].rw = "W"
          THEN break_sharing(P1, b, block, lookup_result, d.ref, f)
          ELSE SharedRead(P1, b, lookup_result, d.ref, f)

\* provision_block
provision_block(P, b, block, cell, f) ==
  LET a == alloc_data_block(P, f)
  IN CASE a.r = "ok" ->
            schedule_zero(a.P, P.bio[b].dev, block, a.block, cell, b, f)
       [] a.r = "ENOSPC" -> no_space(a.P, cell)
       [] OTHER -> cell_error(a.P, cell)

\* The case 0 branch of process_bio without its cell_release_singleton.
FoundKeepCell(P, b, block, lookup_result, cell, f) ==
  IF lookup_result.shared
  THEN process_shared_bio(P, b, block, lookup_result, f)
  ELSE remap_and_issue(P, b, lookup_result.block, f)

\* The case 0 branch of process_bio.
Found(P, b, block, lookup_result, cell, f) ==
  LET P1 == cell_release_singleton(P, cell, b)
  IN IF P1.oops # ""
     THEN P1
     ELSE IF lookup_result.shared
          THEN process_shared_bio(P1, b, block, lookup_result, f)
          ELSE remap_and_issue(P1, b, lookup_result.block, f)

\* process_bio
process_bio(P, b, f) ==
  LET block == P.bio[b].virt
      key == build_virtual_key(P.bio[b].dev, block)
      d == bio_detain(P.cells, key, b)
      P1 == [P EXCEPT !.cells = d.cells]
      lookup_result == dm_thin_find_block(P1, P.bio[b].dev, block)
  IN IF d.r # 0
     THEN P1
     ELSE IF Fails(P1, f, "find")
          THEN bio_io_error(Injected(P1), b)
          ELSE IF lookup_result # NoMapping
               THEN Found(P1, b, block, lookup_result, d.ref, f)
               ELSE provision_block(P1, b, block, d.ref, f)

\* dm_thin_insert_block as process_prepared_mapping calls it, recorded.
Insert(P, m) ==
  [dm_thin_insert_block(P, P.nm[m].dev, P.nm[m].virt_block,
                        P.nm[m].data_block)
   EXCEPT !.inserted = Append(@, [serial |-> P.nm[m].serial,
                                   dev |-> P.nm[m].dev,
                                   virt |-> P.nm[m].virt_block,
                                   data |-> P.nm[m].data_block,
                                   before |-> P.nm[m].before,
                                   bio |-> P.nm[m].bio,
                                   job |-> P.nm[m].job,
                                   inmates |-> P.cells[P.nm[m].cell].bios])]

\* process_prepared_mapping without its test of m->err.
process_prepared_mapping_blind(P, m, f) ==
  LET b == P.nm[m].bio
      cell == P.nm[m].cell
      P0 == IF b # NULL THEN [P EXCEPT !.bio[b].hook = "none"] ELSE P
  IN IF P.nm[m].st # "active"
     THEN Oops(P, "freed mapping")
     ELSE mempool_free(
            IF b # NULL
            THEN bio_endio(cell_defer_except(Insert(P0, m), cell, b), b, FALSE)
            ELSE cell_defer(Insert(P0, m), cell),
            m)

\* process_prepared_mapping.  On the two error returns the mapping is not
\* given back to the mempool.  A mapping that was freed already is freed
\* memory.
process_prepared_mapping(P, m, f) ==
  LET b == P.nm[m].bio
      cell == P.nm[m].cell
      P0 == IF b # NULL THEN [P EXCEPT !.bio[b].hook = "none"] ELSE P
      Leaked(Q) == [Q EXCEPT !.nm[m].st = "leaked"]
  IN IF P.nm[m].st # "active"
     THEN Oops(P, "freed mapping")
     ELSE IF P0.nm[m].err
          THEN Leaked(cell_error(P0, cell))
          ELSE IF Fails(P0, f, "insert")
               THEN Leaked(cell_error(Injected(P0), cell))
               ELSE mempool_free(
                      IF b # NULL
                      THEN bio_endio(cell_defer_except(Insert(P0, m), cell, b),
                                     b, FALSE)
                      ELSE cell_defer(Insert(P0, m), cell),
                      m)

\* thin_defer_bio
thin_defer_bio(P, b) ==
  wake_worker([P EXCEPT !.deferred_bios = bio_list_add(@, b)])

\* thin_bio_map.  wb: the non-blocking lookup finds the btree node not in
\* the cache (-EWOULDBLOCK).  Any other error is returned to the host, which
\* fails the bio.
\* thin_bio_map that does not look at result.shared.
thin_bio_map_any_hit(P, b, wb, f) ==
  LET result == dm_thin_find_block(P, P.bio[b].dev, P.bio[b].virt)
  IN IF P.bio[b].flush
     THEN thin_defer_bio(P, b)
     ELSE IF wb
          THEN thin_defer_bio(P, b)
          ELSE IF Fails(P, f, "find")
               THEN Complete(Injected(P), b, TRUE)
               ELSE IF result # NoMapping
                    THEN Issue(P, b, result.block)
                    ELSE thin_defer_bio(P, b)

thin_bio_map(P, b, wb, f) ==
  LET result == dm_thin_find_block(P, P.bio[b].dev, P.bio[b].virt)
  IN IF P.bio[b].flush
     THEN thin_defer_bio(P, b)
     ELSE IF wb
          THEN thin_defer_bio(P, b)
          ELSE IF Fails(P, f, "find")
               THEN Complete(Injected(P), b, TRUE)
               ELSE IF result # NoMapping /\ ~result.shared
                    THEN Issue(P, b, result.block)
                    ELSE thin_defer_bio(P, b)

(* ------------------------------ worker -------------------------------- *)

Outstanding(P) == {m \in MapIds : P.nm[m].st # "free"}

\* ensure_next_mapping fails: mempool_alloc(GFP_ATOMIC) returns NULL.  That
\* can happen only when the reserve of the mempool may be used up.
EnsureFails(P, memfail) ==
  /\ P.next_mapping = NULL
  /\ \/ Outstanding(P) = MapIds
     \/ memfail /\ Cardinality(Outstanding(P)) >= MAPPING_POOL_SIZE

\* ensure_next_mapping that returns 0 without a mapping in next_mapping.
ensure_next_mapping_empty(P) == P

\* ensure_next_mapping when it succeeds.
ensure_next_mapping(P) ==
  IF P.next_mapping # NULL
  THEN P
  ELSE LET m == Min(MapIds \ Outstanding(P))
       IN [P EXCEPT !.next_mapping = m,
                    !.nm[m] = [FreeMapping EXCEPT !.st = "next"]]

\* The branch of process_deferred_bios taken when ensure_next_mapping fails;
\* bios is the local list after the bio_list_pop.
Requeue(P, bios) ==
  [P EXCEPT !.deferred_bios = bio_list_merge(@, bios)]

(* --------------------- the deferred set's callers --------------------- *)

NReads == 4
NWorks == 4

\* Nobody has called the deferred set.  reads[k] is the k-th ds_inc: the
\* entry it returned, when it was made and whether ds_dec was called for it;
\* works[w] is the w-th ds_add_work: the slot that was current, when it was
\* made, whether current_entry moved and what became of the work.  head and
\* r are what the last ds_dec and the last ds_add_work returned; n counts
\* the calls.
NoCallers ==
  [reads |-> <<>>, works |-> <<>>, head |-> <<>>, r |-> 0,
   op |-> "init", arg |-> 0, n |-> 0]

(* --------------------------- prison hash table ------------------------- *)

\* The fewest and the most buckets a prison gets: n = 128 and the 8192u of
\* the min in calc_nr_buckets.
MIN_BUCKETS == 128
MAX_BUCKETS == 8192

\* calc_nr_buckets that forgets nr_cells /= 4.
calc_nr_buckets_undivided(nr_cells) ==
  LET RECURSIVE Loop(_, _)
      Loop(n, want) == IF n < want THEN Loop(n * 2, want) ELSE n
  IN  Loop(MIN_BUCKETS, Min({nr_cells, MAX_BUCKETS}))

\* calc_nr_buckets.  nr_cells /= 4 is the division of unsigned, which drops
\* the remainder; Loop is while (n < nr_cells) n <<= 1, where n never passes
\* MAX_BUCKETS, so the 32 bits of uint32_t are never filled.
calc_nr_buckets(nr_cells) ==
  LET RECURSIVE Loop(_, _)
      Loop(n, want) == IF n < want THEN Loop(n * 2, want) ELSE n
  IN  Loop(MIN_BUCKETS, Min({nr_cells \div 4, MAX_BUCKETS}))

\* What prison_create stores of the table: nr_buckets and hash_mask.
prison_create(nr_cells) ==
  LET nr_buckets == calc_nr_buckets(nr_cells)
  IN  [nr_buckets |-> nr_buckets, hash_mask |-> nr_buckets - 1]

\* hash_key: (uint32_t) (key->block * BIG_PRIME & prison->hash_mask).
\* The values of uint64_t do not fit the 32-bit integers of TLC, so a
\* 64-bit value is the sequence of its eight bytes, lowest first: block is
\* given so, Limbs(x, n) is the n bytes of a small x and Value the number of
\* a sequence of bytes.  BIG_PRIME is 4294967291UL, that is 0xFFFFFFFB,
\* widened to the 64 bits of the product.  Column(a, b, k, 1) is column k of
\* the long multiplication of a by b, the sum of a[i] * b[j] with
\* i + j = k + 1, and Mul64 the low eight bytes of the product, that is the
\* product modulo 2^64.  AndBits is & on two bytes, bit by bit, And64 on
\* two 64-bit values; hash_mask is widened to 64 bits and the cast keeps the
\* low four bytes.
hash_key(prison, block) ==
  LET RECURSIVE Limbs(_, _)
      Limbs(x, n) ==
        IF n = 0 THEN <<>> ELSE <<x % 256>> \o Limbs(x \div 256, n - 1)
      RECURSIVE Value(_)
      Value(l) == IF l = <<>> THEN 0 ELSE Head(l) + 256 * Value(Tail(l))
      BIG_PRIME == <<251, 255, 255, 255, 0, 0, 0, 0>>
      RECURSIVE Column(_, _, _, _)
      Column(a, b, k, i) ==
        IF i > k THEN 0 ELSE a[i] * b[k + 1 - i] + Column(a, b, k, i + 1)
      RECURSIVE MulFrom(_, _, _, _)
      MulFrom(a, b, k, carry) ==
        IF k > Len(a) THEN <<>>
        ELSE LET t == Column(a, b, k, 1) + carry
             IN  <<t % 256>> \o MulFrom(a, b, k + 1, t \div 256)
      Mul64(a, b) == MulFrom(a, b, 1, 0)
      RECURSIVE AndBits(_, _)
      AndBits(x, y) ==
        IF x = 0 \/ y = 0 THEN 0
        ELSE (x % 2) * (y % 2) + 2 * AndBits(x \div 2, y \div 2)
      And64(a, b) == [i \in 1..Len(a) |-> AndBits(a[i], b[i])]
      hash == Mul64(block, BIG_PRIME)
  IN  Value(SubSeq(And64(hash, Limbs(prison.hash_mask, 8)), 1, 4))

\* No prison yet.  op is the last call, nr_cells and block its argument,
\* hash what hash_key returned.
NoPrison ==
  [nr_cells |-> 0, nr_buckets |-> 0, hash_mask |-> 0, block |-> <<>>,
   hash |-> 0, op |-> "none"]

(* ------------------------- pool life cycle ---------------------------- *)

NPools == 2
NPoolTargets == 2
NThins == 2
MaxRefs == 4

PoolObjs == 1..NPools
PoolTargets == 1..NPoolTargets
Thins == 1..NThins

\* A struct pool that was never allocated.
NoPool == [st |-> "none", ref_count |-> 0, pmd |-> "closed"]

\* Nothing has been constructed yet.  table is dm_thin_pool_table.pools,
\* head first; pt[t] is pt->pool of pool target t and tc[i].pool is tc->pool
\* of thin target i (NULL: the target does not exist); active, inactive and
\* suspended are the tables of the pool's mapped device as device-mapper
\* keeps them.  tc[i].td records how dm_pool_close_thin_device found the
\* pool's metadata.
NoLife ==
  [pool |-> [p \in PoolObjs |-> NoPool],
   table |-> <<>>,
   pt |-> [t \in PoolTargets |-> NULL],
   tc |-> [i \in Thins |-> [pool |-> NULL, td |-> "none"]],
   active |-> NULL,
   inactive |-> NULL,
   suspended |-> FALSE,
   oops |-> ""]

\* The kernel stops in the life cycle code.
LifeOops(L, why) == IF L.oops # "" THEN L ELSE [L EXCEPT !.oops = why]

\* The targets and thin instances whose pointer is pool p.
Holders(L, p) ==
  Cardinality({t \in PoolTargets : L.pt[t] = p})
  + Cardinality({i \in Thins : L.tc[i].pool = p})

\* pool_destroy: the metadata is closed and the pool is freed.
pool_destroy(L, p) ==
  [L EXCEPT !.pool[p].st = "freed", !.pool[p].pmd = "closed"]

\* pool_create: a new struct pool with one reference.  A struct pool that
\* was never allocated, or one that was freed and that nothing points to,
\* can be the memory it gets.
CanCreate(L) ==
  {p \in PoolObjs : /\ L.pool[p].st # "live"
                    /\ Holders(L, p) = 0
                    /\ p \notin Range(L.table)}

pool_create(L, p) ==
  [L EXCEPT !.pool[p] = [st |-> "live", ref_count |-> 1, pmd |-> "open"]]

\* pool_inc
pool_inc(L, p) == [L EXCEPT !.pool[p].ref_count = @ + 1]

\* pool_dec.  On a pool that was freed the decrement is a write to freed
\* memory: the kernel stops, or the memory is still as it was.
pool_dec(L, p, crash) ==
  IF L.pool[p].st # "live"
  THEN IF crash \/ L.pool[p].ref_count <= 1
       THEN LifeOops(L, "freed pool")
       ELSE [L EXCEPT !.pool[p].ref_count = @ - 1]
  ELSE IF L.pool[p].ref_count = 1
       THEN pool_destroy([L EXCEPT !.pool[p].ref_count = 0], p)
       ELSE [L EXCEPT !.pool[p].ref_count = @ - 1]

\* pool_table_lookup: the first pool of the table (there is one mapped
\* device), or NULL.
pool_table_lookup(L) == IF L.table = <<>> THEN NULL ELSE Head(L.table)

\* pool_table_insert
pool_table_insert(L, p) == [L EXCEPT !.table = <<p>> \o @]

\* pool_table_remove
pool_table_remove(L, p) ==
  [L EXCEPT !.table = SelectSeq(@, LAMBDA x : x # p)]

\* pool_ctr: pool_find, then the allocation of the pool_c, which calls
\* pool_destroy when it fails.  fresh is the memory pool_create would get.
pool_ctr(L, t, fresh, nomem, crash) ==
  LET found == pool_table_lookup(L)
      p == IF found # NULL THEN found ELSE fresh
      L1 == IF found # NULL THEN pool_inc(L, p) ELSE pool_create(L, p)
  IN IF found # NULL /\ L.pool[found].st # "live" /\ crash
     THEN LifeOops(L, "freed pool")
     ELSE IF nomem
          THEN pool_destroy(L1, p)
          ELSE [L1 EXCEPT !.pt[t] = p, !.inactive = t]

\* pool_dtr
pool_dtr(L, t, crash) ==
  IF L.oops # ""
  THEN L
  ELSE [pool_dec(L, L.pt[t], crash) EXCEPT !.pt[t] = NULL]

\* pool_postsuspend: the pool leaves the table.  The work queue and the
\* metadata of a pool that was freed are freed memory: the kernel stops, or
\* the memory is still as it was.
pool_postsuspend(L, t, crash) ==
  IF L.pool[L.pt[t]].st # "live" /\ crash
  THEN LifeOops(L, "freed pool")
  ELSE [pool_table_remove(L, L.pt[t]) EXCEPT !.suspended = TRUE]

\* The end of pool_preresume: the pool enters the table.  fail: one of the
\* calls before it failed and pool_preresume returned early.
LifePreresume(L, t, fail, crash) ==
  IF L.oops # ""
  THEN L
  ELSE IF L.pool[L.pt[t]].st # "live" /\ crash
       THEN LifeOops(L, "freed pool")
       ELSE IF fail
            THEN [L EXCEPT !.suspended = TRUE]
            ELSE [pool_table_insert(L, L.pt[t]) EXCEPT !.suspended = FALSE]

\* thin_dtr: pool_dec, then dm_pool_close_thin_device.  When pool_dec has
\* destroyed the pool, the close works on freed metadata: the kernel stops,
\* or the memory is still as it was.
thin_dtr(L, i, crash) ==
  LET p == L.tc[i].pool
      L1 == pool_dec(L, p, crash)
  IN IF L1.oops # ""
     THEN L1
     ELSE IF L1.pool[p].pmd = "open"
          THEN [L1 EXCEPT !.tc[i] = [pool |-> NULL, td |-> "closed"]]
          ELSE IF crash
               THEN LifeOops(L1, "freed metadata")
               ELSE [L1 EXCEPT !.tc[i] = [pool |-> NULL, td |-> "closed late"]]

\* thin_ctr.  openfail: dm_pool_open_thin_device fails.
thin_ctr(L, i, openfail, crash) ==
  LET p == pool_table_lookup(L)
  IN IF p = NULL
     THEN L
     ELSE IF L.pool[p].st # "live" /\ crash
          THEN LifeOops(L, "freed pool")
          ELSE IF openfail
               THEN pool_dec(pool_inc(L, p), p, crash)
               ELSE [pool_inc(L, p) EXCEPT !.tc[i] = [pool |-> p, td |-> "open"]]

(* ------------------------------ actions ------------------------------- *)

IdleThread ==
  [pc |-> "idle", key |-> <<>>, bio |-> NULL, cell2 |-> NoCell,
   ref |-> NoCell]

\* The pool after create_thin 1, a write to block 0 of device 1 and
\* create_snap 2 1: both devices map block 0 to data block 0, shared, and
\* block 1 of both is unmapped.
InitPool(limits) ==
  /\ bio = [b \in BioIds |-> NewBio]
  /\ deferred_bios = <<>>
  /\ retry_list = <<>>
  /\ prepared_mappings = <<>>
  /\ cells = [c \in CellIds |-> FreeCell]
  /\ ds = ds_init
  /\ nm = [m \in MapIds |-> FreeMapping]
  /\ next_mapping = NULL
  /\ low_water_triggered = FALSE
  /\ zero_new_blocks \in BOOLEAN
  /\ md = [d \in Devs |-> [v \in Virts |->
             IF v = 0 THEN [block |-> 0, shared |-> TRUE] ELSE NoMapping]]
  /\ sm = [b \in Blocks |-> IF b = 0 THEN 2 ELSE 0]
  /\ disk = [md |-> md, sm |-> sm]
  /\ wake = FALSE
  /\ wpc = "idle"
  /\ wmaps = <<>>
  /\ wbios = <<>>
  /\ admitted = 0
  /\ faults = 0
  /\ oops = ""
  /\ inserted = <<>>
  /\ nalloc = 0
  /\ nr_blocks = limits.blocks
  /\ events = 0
  /\ resumes = <<>>
  /\ lim = limits
  /\ life = NoLife
  /\ dsh = NoCallers
  /\ hsh = NoPrison
  /\ thr = [t \in Threads |-> IdleThread]

Init ==
  InitPool([bios |-> NBios, faults |-> MaxFaults, plain |-> FALSE,
            blocks |-> NDataBlocks, virts |-> Virts, kinds |-> AllKinds,
            resumes |-> 0])

\* An injected failure must have hit a call of the step.
Hit(P, f) == f = "none" \/ P.faults > faults

\* The host submits its next bio to a thin device: thin_bio_map.
Map ==
  /\ oops = ""
  /\ admitted < lim.bios
  /\ \E dev \in Devs, virt \in lim.virts, rw \in {"R", "W"},
        covers \in BOOLEAN, flush \in BOOLEAN, wb \in BOOLEAN,
        f \in {"none", "find"} :
       /\ lim.plain => ~flush /\ ~covers /\ ~wb
       /\ wb => ~flush /\ md[dev][virt] # NoMapping /\ ~md[dev][virt].shared
       /\ LET b == admitted + 1
              P0 == [Pool EXCEPT !.bio[b] =
                       [NewBio EXCEPT !.st = "queued", !.dev = dev,
                                      !.virt = virt, !.rw = rw,
                                      !.covers = covers, !.flush = flush]]
              P1 == thin_bio_map(P0, b, wb, f)
          IN /\ Hit(P1, f)
             /\ Becomes(P1)
  /\ admitted' = admitted + 1
  /\ UNCHANGED <<zero_new_blocks, wpc, wmaps, wbios, lim, life, dsh, hsh, thr>>

\* do_worker starts: process_prepared_mappings takes the prepared list.
DoWorker ==
  /\ oops = ""
  /\ wake
  /\ wpc = "idle"
  /\ wake' = FALSE
  /\ wmaps' = list_splice_init(prepared_mappings, <<>>)
  /\ prepared_mappings' = <<>>
  /\ wpc' = "prepared"
  /\ UNCHANGED <<bio, deferred_bios, retry_list, cells, ds, nm, next_mapping,
                 low_water_triggered, zero_new_blocks, md, sm, wbios,
                 admitted, faults, oops, inserted, nalloc,
                 nr_blocks, events, resumes, disk, lim, life, dsh, hsh, thr>>

\* One turn of the loop of process_prepared_mappings.  The loop is
\* list_for_each_entry, which reads m->list.next after
\* process_prepared_mapping may have freed m: with the memory intact the loop
\* goes on, otherwise the kernel stops.
ProcessPreparedMapping ==
  /\ oops = ""
  /\ wpc = "prepared"
  /\ wmaps # <<>>
  /\ \E f \in {"none", "insert"}, uaf \in BOOLEAN :
       LET m == Head(wmaps)
           P1 == process_prepared_mapping(Pool, m, f)
       IN /\ Hit(P1, f)
          /\ uaf => P1.nm[m].st = "free"
          /\ Becomes(IF uaf THEN Oops(P1, "freed mapping") ELSE P1)
  /\ wmaps' = Tail(wmaps)
  /\ UNCHANGED <<zero_new_blocks, wpc, wbios, admitted, lim, life, dsh, hsh, thr>>

\* process_deferred_bios starts: it takes the deferred list.
StartDeferred ==
  /\ oops = ""
  /\ wpc = "prepared"
  /\ wmaps = <<>>
  /\ wbios' = bio_list_merge(<<>>, deferred_bios)
  /\ deferred_bios' = <<>>
  /\ wpc' = "deferred"
  /\ UNCHANGED <<bio, retry_list, prepared_mappings, cells, ds, nm,
                 next_mapping, low_water_triggered, zero_new_blocks, md, sm,
                 wake, wmaps, admitted, faults, oops, inserted, nalloc,
                 nr_blocks, events, resumes, disk, lim, life, dsh, hsh, thr>>

\* One turn of the loop of process_deferred_bios that ends in process_bio.
ProcessDeferredBio ==
  /\ oops = ""
  /\ wpc = "deferred"
  /\ wbios # <<>>
  /\ ~EnsureFails(Pool, FALSE)
  /\ \E f \in {"none", "find", "free_count", "alloc", "commit", "kcopyd"} :
       LET P1 == process_bio(ensure_next_mapping(Pool), Head(wbios), f)
       IN /\ Hit(P1, f)
          /\ Becomes(P1)
  /\ wbios' = Tail(wbios)
  /\ UNCHANGED <<zero_new_blocks, wpc, wmaps, admitted, lim, life, dsh, hsh, thr>>

\* The turn of the loop of process_deferred_bios in which
\* ensure_next_mapping fails: the rest of the list is put back and
\* do_worker returns.
BackPressure ==
  /\ oops = ""
  /\ wpc = "deferred"
  /\ wbios # <<>>
  /\ EnsureFails(Pool, TRUE)
  /\ Becomes(Requeue(Pool, Tail(wbios)))
  /\ wbios' = <<>>
  /\ wpc' = "idle"
  /\ UNCHANGED <<zero_new_blocks, wmaps, admitted, lim, life, dsh, hsh, thr>>

\* process_deferred_bios has emptied its list: do_worker returns.
WorkerReturn ==
  /\ oops = ""
  /\ wpc = "deferred"
  /\ wbios = <<>>
  /\ wpc' = "idle"
  /\ UNCHANGED <<bio, deferred_bios, retry_list, prepared_mappings, cells,
                 ds, nm, next_mapping, low_water_triggered, zero_new_blocks,
                 md, sm, wake, wmaps, wbios, admitted, faults, oops, inserted, nalloc,
                 nr_blocks, events, resumes, disk, lim, life, dsh, hsh, thr>>

\* The data device ends a bio, with or without an error.
BioEnd ==
  /\ oops = ""
  /\ \E b \in BioIds, err \in BOOLEAN :
       /\ bio[b].st = "issued"
       /\ err => faults < lim.faults /\ "bio" \in lim.kinds
       /\ Becomes(bio_endio(IF err THEN Injected(Pool) ELSE Pool, b, err))
  /\ UNCHANGED <<zero_new_blocks, wpc, wmaps, wbios, admitted, lim, life, dsh, hsh, thr>>

\* kcopyd ends the copy or zero of a mapping and calls copy_complete.
CopyDone ==
  /\ oops = ""
  /\ \E m \in MapIds, err \in BOOLEAN :
       /\ nm[m].job \in {"copy", "zero"}
       /\ err => faults < lim.faults /\ "copy" \in lim.kinds
       /\ Becomes(copy_complete(IF err THEN Injected(Pool) ELSE Pool, m, err))
  /\ UNCHANGED <<zero_new_blocks, wpc, wmaps, wbios, admitted, lim, life, dsh, hsh, thr>>

Next ==
  \/ Map
  \/ DoWorker
  \/ ProcessPreparedMapping
  \/ StartDeferred
  \/ ProcessDeferredBio
  \/ BackPressure
  \/ WorkerReturn
  \/ BioEnd
  \/ CopyDone

Spec == Init /\ [][Next]_vars

\* One bio more than Spec and one data block more, each bio a read or a
\* write of part of a block without FLUSH or FUA, the lookup of thin_bio_map
\* always cached; new blocks are zeroed, as pool_create sets it.  The
\* failures are those a new_mapping meets: of the submission to kcopyd, of
\* the copy, and of dm_thin_insert_block.
InitWide ==
  /\ InitPool([bios |-> NBios + 1, faults |-> MaxFaults, plain |-> TRUE,
               blocks |-> NDataBlocks + 1, virts |-> Virts,
               kinds |-> {"insert", "kcopyd", "copy"}, resumes |-> 0])
  /\ zero_new_blocks

SpecWide == InitWide /\ [][Next]_vars

\* Two bios more than Spec and one data block more, each bio a read or a
\* write of part of the shared block 0; the only failure is that of the
\* submission to kcopyd.
InitCopier ==
  /\ InitPool([bios |-> NBios + 2, faults |-> MaxFaults, plain |-> TRUE,
               blocks |-> NDataBlocks + 1, virts |-> {0}, kinds |-> {"kcopyd"},
               resumes |-> 0])
  /\ zero_new_blocks

SpecCopier == InitCopier /\ [][Next]_vars

(* ------------- the prison under concurrent bio_detain ------------------ *)

(* ------------------------------ resume -------------------------------- *)

\* Number of calls of pool_preresume in one behaviour of SpecResume.
MaxResumes == 2

\* dm_pool_resize_data_dev: the data device has data_size blocks from now on.
dm_pool_resize_data_dev(P, data_size) == [P EXCEPT !.nr_blocks = data_size]

\* __requeue_bios
requeue_bios(P) ==
  [P EXCEPT !.deferred_bios = bio_list_merge(@, P.retry_list),
            !.retry_list = <<>>]

\* pool_preresume returns r.
Returns(P, r) == [P EXCEPT !.resumes = Append(@, r)]

\* The end of pool_preresume: low_water_triggered = 0, __requeue_bios,
\* wake_worker, return 0.
Resumed(P) ==
  Returns(wake_worker(requeue_bios([P EXCEPT !.low_water_triggered = FALSE,
                                             !.events = 0])),
          "ok")

\* pool_preresume; data_size is the length of the pool target in blocks.
pool_preresume(P, data_size, f) ==
  IF Fails(P, f, "size")
  THEN Returns(Injected(P), "EIO")
  ELSE IF data_size < P.nr_blocks
       THEN Returns(P, "EINVAL")
       ELSE IF data_size > P.nr_blocks
            THEN IF Fails(P, f, "resize")
                 THEN Returns(Injected(P), "EIO")
                 ELSE IF Fails(P, f, "commit")
                      THEN Returns(Injected(
                             dm_pool_resize_data_dev(P, data_size)), "EIO")
                      ELSE Resumed(dm_pool_commit_metadata(
                                     dm_pool_resize_data_dev(P, data_size)))
            ELSE Resumed(P)

\* The host loads a table for the pool and resumes it, with the worker not
\* running.
Preresume ==
  /\ oops = ""
  /\ wpc = "idle"
  /\ Len(resumes) < lim.resumes
  /\ \E data_size \in 1..(NDataBlocks + 1),
        f \in {"none", "size", "resize", "commit"} :
       LET P1 == pool_preresume(Pool, data_size, f)
       IN /\ Hit(P1, f)
          /\ Becomes(P1)
  /\ UNCHANGED <<zero_new_blocks, wpc, wmaps, wbios, admitted, lim, life, dsh, hsh, thr>>

NextResume ==
  \/ Next
  \/ Preresume

\* The data device is full at the start (its only block is the shared
\* block 0) and the host may resume the pool MaxResumes times.  Each bio is
\* a read or a write of part of a block without FLUSH or FUA; new blocks
\* are zeroed; the failures are those of the allocation of a data block and
\* of pool_preresume.
InitResume ==
  /\ InitPool([bios |-> NBios, faults |-> MaxFaults, plain |-> TRUE,
               blocks |-> 1, virts |-> Virts,
               kinds |-> {"free_count", "alloc", "size", "resize", "commit"},
               resumes |-> MaxResumes])
  /\ zero_new_blocks

SpecResume == InitResume /\ [][NextResume]_vars

(* ----------------------- life cycle: the actions ---------------------- *)

LifeUnchanged ==
  UNCHANGED <<bio, deferred_bios, retry_list, prepared_mappings, cells, ds,
              nm, next_mapping, low_water_triggered, zero_new_blocks, md, sm,
              wake, wpc, wmaps, wbios, admitted, faults, oops, inserted,
              nalloc, nr_blocks, events, resumes, disk, lim, dsh,
              hsh, thr>>

\* A table with pool target t is loaded for the pool's device: pool_ctr.
PoolLoad ==
  /\ life.oops = ""
  /\ life.inactive = NULL
  /\ \E t \in PoolTargets, fresh \in PoolObjs, nomem \in BOOLEAN,
        crash \in BOOLEAN :
       /\ life.pt[t] = NULL
       /\ IF pool_table_lookup(life) = NULL
          THEN fresh \in CanCreate(life)
          ELSE /\ fresh = Head(life.table)
               /\ life.pool[fresh].ref_count < MaxRefs
       /\ life' = pool_ctr(life, t, fresh, nomem, crash)
  /\ LifeUnchanged

\* The table that was loaded and not yet made active is dropped: pool_dtr.
PoolClear ==
  /\ life.oops = ""
  /\ life.inactive # NULL
  /\ \E crash \in BOOLEAN :
       life' = [pool_dtr(life, life.inactive, crash) EXCEPT !.inactive = NULL]
  /\ LifeUnchanged

\* The pool's device is suspended: pool_postsuspend.
PoolSuspend ==
  /\ life.oops = ""
  /\ life.active # NULL
  /\ ~life.suspended
  /\ \E crash \in BOOLEAN :
       life' = pool_postsuspend(life, life.active, crash)
  /\ LifeUnchanged

\* The pool's device is resumed.  With a new table loaded, device-mapper
\* suspends the device if it is not, swaps the tables, resumes and destroys
\* the old table.
PoolResume ==
  /\ life.oops = ""
  /\ \/ life.inactive # NULL
     \/ life.active # NULL /\ life.suspended
  /\ \E fail \in BOOLEAN, crash \in BOOLEAN :
       IF life.inactive = NULL
       THEN life' = LifePreresume(life, life.active, fail, crash)
       ELSE LET old == life.active
                L1 == IF old # NULL /\ ~life.suspended
                      THEN pool_postsuspend(life, old, crash)
                      ELSE life
                L2 == IF L1.oops # ""
                      THEN L1
                      ELSE [L1 EXCEPT !.active = life.inactive,
                                      !.inactive = NULL]
                L3 == LifePreresume(L2, L2.active, fail, crash)
            IN life' = IF old # NULL THEN pool_dtr(L3, old, crash) ELSE L3
  /\ LifeUnchanged

\* The active table of the pool's device goes away (the device is removed,
\* or a table without a pool target replaces it): pool_postsuspend if the
\* device is not suspended, then pool_dtr.
PoolRemove ==
  /\ life.oops = ""
  /\ life.active # NULL
  /\ \E crash \in BOOLEAN :
       LET t == life.active
           L1 == IF life.suspended
                 THEN life
                 ELSE pool_postsuspend(life, t, crash)
       IN life' = IF L1.oops # ""
                  THEN L1
                  ELSE [pool_dtr(L1, t, crash) EXCEPT !.active = NULL,
                                                      !.suspended = FALSE]
  /\ LifeUnchanged

\* A thin target is constructed: thin_ctr.
ThinCtr ==
  /\ life.oops = ""
  /\ \E i \in Thins, openfail \in BOOLEAN, crash \in BOOLEAN :
       /\ life.tc[i].pool = NULL
       /\ IF pool_table_lookup(life) = NULL
          THEN TRUE
          ELSE life.pool[Head(life.table)].ref_count < MaxRefs
       /\ life' = thin_ctr(life, i, openfail, crash)
  /\ LifeUnchanged

\* A thin target is destroyed: thin_dtr.
ThinDtr ==
  /\ life.oops = ""
  /\ \E i \in Thins, crash \in BOOLEAN :
       /\ life.tc[i].pool # NULL
       /\ life' = thin_dtr(life, i, crash)
  /\ LifeUnchanged

NextLife ==
  \/ PoolLoad
  \/ PoolClear
  \/ PoolSuspend
  \/ PoolResume
  \/ PoolRemove
  \/ ThinCtr
  \/ ThinDtr

\* No bio is submitted: only the targets come and go.
InitLife ==
  /\ InitPool([bios |-> 0, faults |-> 0, plain |-> TRUE,
               blocks |-> NDataBlocks, virts |-> Virts, kinds |-> {},
               resumes |-> 0])
  /\ zero_new_blocks

SpecLife == InitLife /\ [][NextLife]_vars

(* ----------------------- deferred set: the calls --------------------- *)

DsUnchanged ==
  UNCHANGED <<bio, deferred_bios, retry_list, prepared_mappings, cells, nm,
              next_mapping, low_water_triggered, zero_new_blocks, md, sm,
              wake, wpc, wmaps, wbios, admitted, faults, oops, inserted,
              nalloc, nr_blocks, events, resumes, disk, lim, life,
              hsh, thr>>

\* A read of a shared block is issued: ds_inc.
DsInc ==
  /\ Len(dsh.reads) < NReads
  /\ LET i == ds_inc(ds)
     IN /\ ds' = i.ds
        /\ dsh' = [dsh EXCEPT
                     !.reads = Append(@, [entry |-> i.entry, t |-> dsh.n,
                                          st |-> "in"]),
                     !.op = "inc", !.arg = i.entry, !.n = @ + 1]
  /\ DsUnchanged

\* A read ends: ds_dec on the entry it holds, with an empty list.
DsDec ==
  /\ \E k \in DOMAIN dsh.reads :
       /\ dsh.reads[k].st = "in"
       /\ LET d == ds_dec(ds, dsh.reads[k].entry, <<>>)
          IN /\ ~d.bug
             /\ ds' = d.ds
             /\ dsh' = [dsh EXCEPT
                          !.reads[k].st = "done",
                          !.works = [w \in DOMAIN @ |->
                                       IF w \in Range(d.head)
                                       THEN [@[w] EXCEPT !.st = "returned"]
                                       ELSE @[w]],
                          !.head = d.head,
                          !.op = "dec", !.arg = dsh.reads[k].entry,
                          !.n = @ + 1]
  /\ DsUnchanged

\* A new mapping is to wait for the reads in flight: ds_add_work.
DsAddWork ==
  /\ Len(dsh.works) < NWorks
  /\ LET w == Len(dsh.works) + 1
         a == ds_add_work(ds, w)
     IN /\ ds' = a.ds
        /\ dsh' = [dsh EXCEPT
                     !.works = Append(@,
                       [slot |-> ds.current_entry, t |-> dsh.n,
                        advanced |-> a.ds.current_entry # ds.current_entry,
                        st |-> IF a.r = 1 THEN "waiting" ELSE "refused"]),
                     !.r = a.r,
                     !.op = "add", !.arg = w, !.n = @ + 1]
  /\ DsUnchanged

NextDs ==
  \/ DsInc
  \/ DsDec
  \/ DsAddWork

\* No bio is submitted: the deferred set is called directly.
InitDs ==
  /\ InitPool([bios |-> 0, faults |-> 0, plain |-> TRUE,
               blocks |-> NDataBlocks, virts |-> Virts, kinds |-> {},
               resumes |-> 0])
  /\ zero_new_blocks

SpecDs == InitDs /\ [][NextDs]_vars

\* Every read that was issued ends: its endio calls ds_dec.
SpecDsFair == SpecDs /\ WF_vars(DsDec)

\* Init, with NInmates bios for the threads to detain.
InitPrison ==
  /\ bio = [b \in 1..NInmates |-> NewBio]
  /\ deferred_bios = <<>>
  /\ retry_list = <<>>
  /\ prepared_mappings = <<>>
  /\ cells = [c \in CellIds |-> FreeCell]
  /\ ds = ds_init
  /\ nm = [m \in MapIds |-> FreeMapping]
  /\ next_mapping = NULL
  /\ low_water_triggered = FALSE
  /\ zero_new_blocks = TRUE
  /\ md = [d \in Devs |-> [v \in Virts |-> NoMapping]]
  /\ sm = [b \in Blocks |-> 0]
  /\ disk = [md |-> md, sm |-> sm]
  /\ wake = FALSE
  /\ wpc = "idle"
  /\ wmaps = <<>>
  /\ wbios = <<>>
  /\ admitted = 0
  /\ faults = 0
  /\ oops = ""
  /\ inserted = <<>>
  /\ nalloc = 0
  /\ nr_blocks = NDataBlocks
  /\ events = 0
  /\ resumes = <<>>
  /\ lim = [bios |-> NInmates, faults |-> 0, plain |-> TRUE,
            blocks |-> NDataBlocks, virts |-> Virts, kinds |-> {},
            resumes |-> 0]
  /\ life = NoLife
  /\ dsh = NoCallers
  /\ hsh = NoPrison
  /\ thr = [t \in Threads |-> IdleThread]

PrisonUnchanged ==
  UNCHANGED <<deferred_bios, retry_list, prepared_mappings, ds, nm,
              next_mapping, low_water_triggered, zero_new_blocks, md, sm,
              wake, wpc, wmaps, wbios, faults, oops, inserted, nalloc,
              nr_blocks, events, resumes, disk, lim, life, dsh,
              hsh>>

\* bio_detain up to the first search of the bucket: when the cell is there
\* the inmate is added under the same hold of the lock, otherwise the lock
\* is dropped.
DetainSearch(t) ==
  /\ thr[t].pc = "idle"
  /\ admitted < NInmates
  /\ \E dev \in {1}, virt \in Virts :
       LET b == admitted + 1
           key == build_virtual_key(dev, virt)
           cell == SearchBucket(cells, key)
           d == AddInmate(cells, cell, b)
       IN IF cell # NoCell
          THEN /\ cells' = d.cells
               /\ bio' = [bio EXCEPT ![b] = [NewBio EXCEPT
                             !.st = "queued", !.dev = dev, !.virt = virt,
                             !.r = d.r]]
               /\ thr' = [thr EXCEPT ![t] = [IdleThread EXCEPT
                             !.pc = "held", !.key = key, !.bio = b,
                             !.ref = d.ref]]
          ELSE /\ cells' = cells
               /\ bio' = [bio EXCEPT ![b] = [NewBio EXCEPT
                             !.st = "queued", !.dev = dev, !.virt = virt]]
               /\ thr' = [thr EXCEPT ![t] = [IdleThread EXCEPT
                             !.pc = "alloc", !.key = key, !.bio = b]]
  /\ admitted' = admitted + 1
  /\ PrisonUnchanged

\* mempool_alloc with the lock dropped; it waits while the pool is empty.
DetainAlloc(t) ==
  /\ thr[t].pc = "alloc"
  /\ CellAvailable(cells)
  /\ cells' = [cells EXCEPT ![CellAlloc(cells)].st = "alloc"]
  /\ thr' = [thr EXCEPT ![t].pc = "relock", ![t].cell2 = CellAlloc(cells)]
  /\ UNCHANGED <<bio, admitted>>
  /\ PrisonUnchanged

\* The lock is retaken: the rest of bio_detain.
DetainRelock(t) ==
  /\ thr[t].pc = "relock"
  /\ LET d == DetainRelocked(cells, thr[t].key, thr[t].bio, thr[t].cell2)
     IN /\ cells' = d.cells
        /\ bio' = [bio EXCEPT ![thr[t].bio].r = d.r]
        /\ thr' = [thr EXCEPT ![t].pc = "held", ![t].ref = d.ref]
  /\ UNCHANGED admitted
  /\ PrisonUnchanged

\* The owner (bio_detain returned 0) releases its cell: cell_release.
OwnerRelease(t) ==
  /\ thr[t].pc = "held"
  /\ bio[thr[t].bio].r = 0
  /\ \A u \in Threads : thr[u].pc = "held" /\ thr[u].ref = thr[t].ref
                        => bio[thr[u].bio].r = 0
  /\ LET rel == CellRelease(cells, thr[t].ref, <<>>)
     IN /\ cells' = rel.cells
        /\ bio' = [b \in DOMAIN bio |->
                     IF b \in Range(rel.bios)
                     THEN [bio[b] EXCEPT !.st = "ok"]
                     ELSE bio[b]]
  /\ thr' = [thr EXCEPT ![t] = IdleThread]
  /\ UNCHANGED admitted
  /\ PrisonUnchanged

\* A caller that found the cell occupied returns; its bio stays in the cell.
DetainReturn(t) ==
  /\ thr[t].pc = "held"
  /\ bio[thr[t].bio].r # 0
  /\ thr' = [thr EXCEPT ![t] = IdleThread]
  /\ UNCHANGED <<bio, cells, admitted>>
  /\ PrisonUnchanged

NextPrison ==
  \/ \E t \in Threads : DetainSearch(t)
  \/ \E t \in Threads : DetainAlloc(t)
  \/ \E t \in Threads : DetainRelock(t)
  \/ \E t \in Threads : OwnerRelease(t)
  \/ \E t \in Threads : DetainReturn(t)

SpecPrison == InitPrison /\ [][NextPrison]_vars

(* ----------------------- SpecHash: the hash table ----------------------- *)

\* The requested cell counts: the counts from one below to four above each
\* 4 << k up to k = MaxShift, where nr_cells / 4 reaches or passes a power
\* of two, then none at all and the largest integer TLC holds.
MaxShift == 14
NrCells ==
  {4 * 2^k + d : k \in 0..MaxShift, d \in -1..4} \cup {0, 2147483647}

\* The blocks of the keys: the first MaxKeyBlock blocks and blocks that fill
\* the high bytes of dm_block_t.
MaxKeyBlock == 12
KeyBlocks ==
  {[i \in 1..8 |-> IF i = 1 THEN x ELSE 0] : x \in 0..MaxKeyBlock} \cup
  {<<255, 255, 255, 255, 0, 0, 0, 0>>, <<0, 0, 0, 0, 1, 0, 0, 0>>,
   <<0, 0, 0, 0, 0, 0, 0, 128>>, <<51, 51, 51, 51, 51, 51, 51, 51>>,
   <<255, 255, 255, 255, 255, 255, 255, 255>>}

HashUnchanged ==
  UNCHANGED <<bio, deferred_bios, retry_list, prepared_mappings, cells, ds,
              nm, next_mapping, low_water_triggered, zero_new_blocks, md, sm,
              wake, wpc, wmaps, wbios, admitted, faults, oops, inserted,
              nalloc, nr_blocks, events, resumes, disk, lim, life, dsh, thr>>

\* prison_create(nr_cells), as pool_create calls it.
PrisonCreate ==
  /\ hsh.op = "none"
  /\ \E nr_cells \in NrCells :
       LET prison == prison_create(nr_cells)
       IN  hsh' = [hsh EXCEPT !.nr_cells = nr_cells,
                              !.nr_buckets = prison.nr_buckets,
                              !.hash_mask = prison.hash_mask,
                              !.op = "prison_create"]
  /\ HashUnchanged

\* hash_key(prison, key), as bio_detain calls it.
HashKey ==
  /\ hsh.op # "none"
  /\ \E block \in KeyBlocks :
       hsh' = [hsh EXCEPT !.block = block, !.hash = hash_key(hsh, block),
                          !.op = "hash_key"]
  /\ HashUnchanged

NextHash ==
  \/ PrisonCreate
  \/ HashKey

SpecHash == InitPrison /\ [][NextHash]_vars

(* ------------------------------ claims -------------------------------- *)

InTable(c) == cells[c].st = "table"

\* The cells that hold bio b.
CellsOf(b) == {c \in CellIds : InTable(c) /\ b \in Range(cells[c].bios)}

\* Number of positions of sequence s that hold x.
Occurrences(s, x) == Cardinality({i \in 1..Len(s) : s[i] = x})

\* Bio b waits somewhere the worker or a completion will find it.
Waiting(b) ==
  \/ b \in Range(deferred_bios) \cup Range(wbios) \cup Range(retry_list)
  \/ CellsOf(b) # {}

\* C1: no lost request.  In no reachable state is an admitted request that
\* has not been issued or completed absent from the deferred list, the
\* worker's local list, the retry list and every prison cell; and no request
\* that was completed stays in a cell.
C1_NoLostRequest ==
  \A b \in BioIds :
     /\ bio[b].st = "queued" => Waiting(b)
     /\ bio[b].st \in {"ok", "err"} => CellsOf(b) = {}

\* C2: no dangling old block.  Every mapping that schedule_copy set up is
\* inserted into the metadata only when every shared read that had
\* incremented the deferred set before its ds_add_work has ended.
C2_InsertAfterSharedReads ==
  \A i \in 1..Len(inserted) :
     \A b \in inserted[i].before : bio[b].st \in {"ok", "err"}

\* A mapping was inserted that had shared reads to wait for.
C2_Witness ==
  \E i \in 1..Len(inserted) :
     /\ inserted[i].before # {}
     /\ \A b \in inserted[i].before : bio[b].st \in {"ok", "err"}

\* C3: at most one prison cell per key, whatever the interleaving of the
\* threads inside bio_detain.
C3_OneCellPerKey ==
  \A c1, c2 \in CellIds :
     InTable(c1) /\ InTable(c2) /\ cells[c1].key = cells[c2].key => c1 = c2

\* A thread allocated a cell with the lock dropped, found on the re-check
\* that another thread had inserted the cell, and joined that one.
C3_Witness ==
  \E t \in Threads :
     /\ thr[t].pc = "held"
     /\ thr[t].cell2 # NoCell
     /\ thr[t].ref # thr[t].cell2
     /\ InTable(thr[t].ref)
     /\ cells[thr[t].cell2].st # "alloc"

\* C4: bio_detain returns the number of bios that were in the cell before:
\* the k-th bio of every cell got k-1, so exactly one got 0.
C4_CountBefore ==
  \A c \in CellIds :
     InTable(c) =>
       /\ cells[c].count = Len(cells[c].bios)
       /\ \A k \in 1..Len(cells[c].bios) : bio[cells[c].bios[k]].r = k - 1

\* A cell was released and the next cell of the same key has an owner and a
\* second inmate.
C4_Witness ==
  \E c \in CellIds, b \in DOMAIN bio :
     /\ InTable(c)
     /\ Len(cells[c].bios) >= 2
     /\ bio[b].st = "ok"
     /\ build_virtual_key(bio[b].dev, bio[b].virt) = cells[c].key

\* C5: a bio is held in at most one prison cell, once; a bio on the
\* deferred list, the worker's list or the retry list is in no cell.
C5_AtMostOneCell ==
  \A b \in BioIds :
     /\ Cardinality(CellsOf(b)) <= 1
     /\ \A c \in CellsOf(b) : Occurrences(cells[c].bios, b) = 1
     /\ b \in Range(deferred_bios) \cup Range(retry_list) => CellsOf(b) = {}

\* A bio is held in the cell of a data key: it has left its virtual cell.
C5_Witness ==
  \E c \in CellIds :
     /\ InTable(c)
     /\ cells[c].key[1] = 0
     /\ cells[c].bios # <<>>

Active(m) == nm[m].st = "active"

InFlightSharedReads(i) ==
  {b \in BioIds : bio[b].hook = "shared" /\ bio[b].ptr = i}

\* C8: the counter of every slot of the deferred set is the number of shared
\* reads that incremented it and have not ended, and ds_dec never finds a
\* counter at zero.
C8_CountIsInFlight ==
  /\ \A i \in Slots : ds.count[i] = Cardinality(InFlightSharedReads(i))
  /\ oops # "ds_dec"

\* Work was added behind shared reads, and all of them have decremented
\* their slot since: the sweeper caught up.
C8_Witness ==
  /\ ds.current_entry # 0
  /\ ds.sweeper = ds.current_entry
  /\ \A i \in Slots : ds.count[i] = 0

\* C9: a new_mapping is added to the prepared list at most once.
C9_AddedAtMostOnce ==
  \A m \in MapIds : nm[m].nadd <= 1

\* The worker is about to give bio b to process_bio while new_mapping m is
\* in flight for the virtual block of b.
ReachesWorkerDuring(b, m) ==
  /\ Active(m)
  /\ wpc = "deferred"
  /\ wbios # <<>>
  /\ b = Head(wbios)
  /\ bio[b].dev = nm[m].dev
  /\ bio[b].virt = nm[m].virt_block

\* C6: a bio that reaches the worker while its virtual block is being
\* provisioned or unshared ends up queued in the cell of the new_mapping in
\* flight and is not issued.
C6_QueuedInMappingCell ==
  [][\A b \in BioIds, m \in MapIds :
        ReachesWorkerDuring(b, m) /\ wbios' = Tail(wbios) /\ wpc' = "deferred"
        => /\ b \in Range(cells'[nm[m].cell].bios)
           /\ bio'[b].st = "queued"]_vars

\* Sequence s holds elements of src, in the order src has them.
KeepsOrder(s, src) == s = SelectSeq(src, LAMBDA x : x \in Range(s))

\* What a step appended to deferred_bios.
Appended == SubSeq(deferred_bios', Len(deferred_bios) + 1, Len(deferred_bios'))

C11_BackPressureRequeuesAll ==
  [][wpc = "deferred" /\ wpc' = "idle"
     => \A b \in Range(wbios) : b \in Range(deferred_bios')]_vars

\* The worker gave bio b to process_bio, which failed it.
ProcessBioFailed(b) ==
  /\ wpc = "deferred"
  /\ wbios # <<>>
  /\ b = Head(wbios)
  /\ wbios' = Tail(wbios)
  /\ bio[b].st = "queued"
  /\ bio'[b].st = "err"

\* C12: when process_bio fails the bio it detained under the virtual key,
\* no cell is left for that key.
C12_FailedOwnerLeavesNoCell ==
  [][\A b \in BioIds :
        ProcessBioFailed(b)
        => SearchBucket(cells', build_virtual_key(bio[b].dev, bio[b].virt))
             = NoCell]_vars

\* The worker gives bio b to process_bio, and the step injects no failure.
ProcessBioStep(b) ==
  /\ wpc = "deferred"
  /\ wbios # <<>>
  /\ b = Head(wbios)
  /\ wbios' = Tail(wbios)
  /\ wpc' = "deferred"
  /\ faults' = faults

\* process_bio of b is going to ask for a data block: it becomes the owner
\* of the virtual-key cell and finds the block unmapped, or it is a write
\* that finds the block shared and becomes the owner of the data-key cell.
NeedsBlock(b) ==
  LET dev == bio[b].dev
      virt == bio[b].virt
      r == md[dev][virt]
  IN /\ SearchBucket(cells, build_virtual_key(dev, virt)) = NoCell
     /\ \/ r = NoMapping
        \/ /\ r.shared
           /\ bio[b].rw = "W"
           /\ SearchBucket(cells, build_data_key(dev, r.block)) = NoCell

\* C13: when the allocation of a data block finds no space, the bios of the
\* owning cell go to the tail of the retry list, none of them is completed
\* or failed, the cell leaves the prison and no new_mapping is set up.
C13_NoSpaceParks ==
  [][\A b \in BioIds :
        ProcessBioStep(b) /\ NeedsBlock(b) /\ FreeBlocks(Pool) = {}
        => /\ retry_list' = Append(retry_list, b)
           /\ bio'[b].st = "queued"
           /\ \A c \in CellIds :
                 cells'[c].st = "table" => b \notin Range(cells'[c].bios)
           /\ SearchBucket(cells', build_virtual_key(bio[b].dev, bio[b].virt))
                = NoCell
           /\ nalloc' = nalloc
           /\ \A m \in MapIds :
                 nm'[m] = nm[m] \/ nm'[m] = [FreeMapping EXCEPT !.st = "next"]]_vars

\* Two bios wait on the retry list, and no cell holds them.
C13_Witness ==
  /\ Len(retry_list) >= 2
  /\ \A i \in 1..Len(retry_list) :
        bio[retry_list[i]].st = "queued" /\ CellsOf(retry_list[i]) = {}

\* C14: a bio that was parked on the retry list and has not been completed
\* waits on the retry list or, after the resume, on the deferred list, on
\* the worker's list or in a cell: it is retried.
C14_ParkedIsRetried ==
  \A b \in BioIds : bio[b].parked /\ bio[b].st = "queued" => Waiting(b)

\* What pool_preresume does at once: when it returns 0 the retry list is
\* empty, its bios are at the tail of the deferred list in their order,
\* low_water_triggered is clear and the worker is woken; when it fails the
\* retry list and low_water_triggered are as before.
PreresumeEffect ==
  [][Len(resumes') = Len(resumes) + 1
     => IF resumes'[Len(resumes')] = "ok"
        THEN /\ retry_list' = <<>>
             /\ deferred_bios' = deferred_bios \o retry_list
             /\ ~low_water_triggered'
             /\ wake'
        ELSE /\ retry_list' = retry_list
             /\ low_water_triggered' = low_water_triggered
             /\ deferred_bios' = deferred_bios]_vars

\* Number of free data blocks after the step.
FreeAfter ==
  Cardinality({b \in 0..(nr_blocks' - 1) : sm'[b] = 0 /\ disk'.sm[b] = 0})

\* C15: after every allocation of a data block that leaves no more free
\* blocks than the low water mark, low_water_triggered is set and the event
\* has been raised.
C15_LowWaterAfterAllocation ==
  [][(\E blk \in Blocks : sm[blk] = 0 /\ sm'[blk] = 1)
     /\ FreeAfter <= LowWaterBlocks
     => low_water_triggered' /\ events' >= 1]_vars

\* The event is raised at most once between two resumes, and only together
\* with low_water_triggered.
AtMostOneEvent ==
  /\ events <= 1
  /\ low_water_triggered <=> events = 1

\* C16: while a bio waits on the retry list, the resize event has been
\* raised since the last resume.
C16_EventBeforeParking ==
  retry_list # <<>> => low_water_triggered /\ events >= 1

\* A bio was parked again after a resume that did not bring space.
C16_Witness ==
  /\ retry_list # <<>>
  /\ resumes # <<>>
  /\ resumes[Len(resumes)] = "ok"
  /\ events = 1

\* The worker gives the prepared mapping m to process_prepared_mapping, and
\* the kernel goes on.
InstallStep(m) ==
  /\ wpc = "prepared"
  /\ wmaps # <<>>
  /\ m = Head(wmaps)
  /\ wmaps' = Tail(wmaps)
  /\ nm[m].st = "active"
  /\ oops' = ""

\* C17: when the worker installs a prepared mapping that carries an error,
\* or the insertion into the metadata fails, every bio of the owning cell,
\* the fast-path writer among them, goes from uncompleted to failed, the
\* cell leaves the prison, nothing is requeued and the metadata is as before.
C17_FailedInstallFailsCell ==
  [][\A m \in MapIds :
        InstallStep(m) /\ (nm[m].err \/ faults' > faults)
        => /\ cells[nm[m].cell].st = "table"
           /\ cells'[nm[m].cell].st # "table"
           /\ nm[m].bio # NULL => nm[m].bio \in Range(cells[nm[m].cell].bios)
           /\ \A b \in Range(cells[nm[m].cell].bios) :
                 /\ bio[b].st \in {"queued", "held"}
                 /\ bio'[b].st = "err"
                 /\ Occurrences(deferred_bios', b) = 0
           /\ md' = md
           /\ inserted' = inserted
           /\ deferred_bios' = deferred_bios]_vars

\* A failed install has failed a fast-path writer and a bio that waited
\* behind it.
C17_Witness ==
  \E m \in MapIds, b \in BioIds :
     /\ nm[m].st = "leaked"
     /\ nm[m].bio \notin {NULL, b}
     /\ bio[nm[m].bio].st = "err"
     /\ bio[b].st = "err"
     /\ inserted = <<>>

\* Nothing is left to do: no bio is uncompleted, the lists are empty and the
\* worker sleeps.
Quiescent ==
  /\ wpc = "idle"
  /\ ~wake
  /\ deferred_bios = <<>>
  /\ retry_list = <<>>
  /\ prepared_mappings = <<>>
  /\ \A b \in BioIds : bio[b].st \in {"new", "ok", "err"}
  /\ \A c \in CellIds : cells[c].st # "table"

\* C18: when the pool is quiescent every new_mapping is back in the mapping
\* pool, except the spare one kept in pool->next_mapping.
C18_MappingsReturned ==
  Quiescent /\ oops = "" => \A m \in MapIds : nm[m].st \in {"free", "next"}

\* C19: a successful install completes the fast-path writer, if there is
\* one, with success and does not requeue it; every other bio of the cell is
\* appended to the deferred list in cell order, still uncompleted; the cell
\* leaves the prison and the worker is woken.
C19_InstallRequeuesAllButWriter ==
  [][\A m \in MapIds :
        InstallStep(m) /\ ~nm[m].err /\ faults' = faults
        => LET w == nm[m].bio
               bs == cells[nm[m].cell].bios
           IN /\ cells[nm[m].cell].st = "table"
              /\ cells'[nm[m].cell].st # "table"
              /\ wake'
              /\ Len(inserted') = Len(inserted) + 1
              /\ deferred_bios' =
                   deferred_bios \o SelectSeq(bs, LAMBDA x : x # w)
              /\ \A b \in Range(bs) \ {w} : bio'[b].st = "queued"
              /\ w # NULL => /\ Occurrences(bs, w) = 1
                             /\ bio[w].st = "held"
                             /\ bio'[w].st = "ok"
                             /\ Occurrences(deferred_bios', w) = 0]_vars

\* An install with a fast-path writer and a second bio in the cell: the
\* writer has succeeded and the other bio is back on the deferred list.
C19_Witness ==
  \E i \in 1..Len(inserted) :
     LET w == inserted[i].bio
     IN /\ w # NULL
        /\ bio[w].st = "ok"
        /\ \E b \in Range(inserted[i].inmates) \ {w} :
              b \in Range(deferred_bios) /\ bio[b].st = "queued"

\* The insertions of a mapping for the virtual block of bio b.
InsertionsFor(b) ==
  {i \in 1..Len(inserted) :
      inserted[i].dev = bio[b].dev /\ inserted[i].virt = bio[b].virt}

\* Bio b is a partial write, under way to the data device, to a virtual
\* block that no mapping existed for when the pool started.
PartialWriteIssued(b) ==
  /\ bio[b].st = "issued"
  /\ bio[b].rw = "W"
  /\ ~bio[b].covers
  /\ bio[b].virt # 0

\* C20: with zero_new_blocks on, a partial write to an unmapped block is on
\* its way to the data device only after the mapping to the block it goes
\* to was inserted, and when the write is the one that provisioned the block
\* the insertion came after the zeroing of the allocated block had ended.
C20_WriteAfterZeroAndInsert ==
  zero_new_blocks =>
    \A b \in BioIds :
       PartialWriteIssued(b)
       => /\ InsertionsFor(b) # {}
          /\ md[bio[b].dev][bio[b].virt] =
               [block |-> bio[b].blk, shared |-> FALSE]
          /\ sm[bio[b].blk] >= 1
          /\ \A i \in InsertionsFor(b) :
                /\ inserted[i].data = bio[b].blk
                /\ Head(inserted[i].inmates) = b
                   => inserted[i].bio = NULL /\ inserted[i].job = "done"

\* The write that provisioned a block is issued after the zero and the
\* insertion.
C20_Witness ==
  /\ zero_new_blocks
  /\ \E b \in BioIds :
        /\ PartialWriteIssued(b)
        /\ \E i \in InsertionsFor(b) :
              Head(inserted[i].inmates) = b /\ inserted[i].job = "done"

\* Bio b is a write that will be its own copy or zero: it covers the whole
\* block, or it goes to an unmapped block while zero_new_blocks is off.
WritesWholeBlock(b) ==
  /\ bio[b].rw = "W"
  /\ \/ bio[b].covers
     \/ ~zero_new_blocks /\ md[bio[b].dev][bio[b].virt] = NoMapping

\* C21: a write that covers its block (or any write to an unmapped block
\* with zero_new_blocks off) and needs a new data block is issued to the
\* block just allocated with no job given to kcopyd and no mapping inserted
\* yet; it is not issued or queued again; and the mapping it made is
\* inserted only after the write has ended without error.
C21_WriteIsTheCopy ==
  [][/\ \A b \in BioIds :
          /\ ProcessBioStep(b) /\ NeedsBlock(b) /\ WritesWholeBlock(b)
             /\ FreeBlocks(Pool) # {} /\ oops' = ""
             => /\ bio'[b].st = "issued"
                /\ bio'[b].blk \in FreeBlocks(Pool)
                /\ sm'[bio'[b].blk] = 1
                /\ bio'[b].hook = "overwrite"
                /\ nm'[bio'[b].ptr].bio = b
                /\ nm'[bio'[b].ptr].data_block = bio'[b].blk
                /\ \A m \in MapIds : nm'[m].job = nm[m].job
                /\ md' = md
                /\ inserted' = inserted
          /\ bio[b].hook = "overwrite" /\ bio[b].st = "issued"
             => bio'[b].st \in {"issued", "held"}
          /\ bio[b].hook = "overwrite" /\ bio[b].st = "held"
             => bio'[b].st \in {"held", "ok", "err"}
     /\ \A m \in MapIds :
          InstallStep(m) /\ Len(inserted') > Len(inserted) /\ nm[m].bio # NULL
          => /\ bio[nm[m].bio].st = "held"
             /\ ~nm[m].err
             /\ nm[m].job = "none"
             /\ bio[nm[m].bio].blk = nm[m].data_block
             /\ md'[nm[m].dev][nm[m].virt_block].block = nm[m].data_block]_vars

\* A write that covered a shared block has ended well, and the mapping to
\* its new block was inserted with no copy.
C21_Witness ==
  \E i \in 1..Len(inserted) :
     /\ inserted[i].bio # NULL
     /\ inserted[i].virt = 0
     /\ inserted[i].job = "none"
     /\ bio[inserted[i].bio].st = "ok"

\* Bio b is a write to part of a block that its device shares, and
\* process_bio of b will break the sharing.
BreaksSharing(b) ==
  /\ NeedsBlock(b)
  /\ md[bio[b].dev][bio[b].virt] # NoMapping
  /\ ~bio[b].covers

\* C22: breaking sharing for a partial write allocates one data block and
\* gives kcopyd the copy to it while the write waits in its cell and the
\* metadata stays as it is; the install changes the mapping of that device
\* and virtual block only, to the new block; and no write is ever under way
\* to a block that another device maps.
C22_BreakSharingLeavesOthers ==
  [][/\ \A b \in BioIds :
          /\ ProcessBioStep(b) /\ BreaksSharing(b)
             /\ FreeBlocks(Pool) # {} /\ oops' = ""
             => /\ \E new \in FreeBlocks(Pool) :
                      /\ sm' = [sm EXCEPT ![new] = 1]
                      /\ \E m \in MapIds :
                            /\ nm[m].st # "active"
                            /\ nm'[m].st = "active"
                            /\ nm'[m].job = "copy"
                            /\ nm'[m].data_block = new
                            /\ nm'[m].dev = bio[b].dev
                            /\ nm'[m].virt_block = bio[b].virt
                /\ nalloc' = nalloc + 1
                /\ bio'[b].st = "queued"
                /\ md' = md
          /\ bio'[b].st = "issued" /\ bio'[b].rw = "W"
             => \A d \in Devs \ {bio'[b].dev}, v \in Virts :
                   md'[d][v].block # bio'[b].blk
     /\ \A m \in MapIds :
          InstallStep(m) /\ Len(inserted') > Len(inserted)
          => md' = [md EXCEPT ![nm[m].dev][nm[m].virt_block] =
                       [block |-> nm[m].data_block, shared |-> FALSE]]]_vars

\* Device 1 has broken the sharing of block 0 by a copy and a write is under
\* way to the new block, while device 2 still maps the shared block.
C22_Witness ==
  \E i \in 1..Len(inserted), b \in BioIds :
     /\ inserted[i].dev = 1
     /\ inserted[i].virt = 0
     /\ inserted[i].job = "done"
     /\ md[2][0] = [block |-> 0, shared |-> TRUE]
     /\ md[1][0] = [block |-> inserted[i].data, shared |-> FALSE]
     /\ bio[b].st = "issued"
     /\ bio[b].rw = "W"
     /\ bio[b].dev = 1
     /\ bio[b].virt = 0
     /\ bio[b].blk = inserted[i].data

\* thin_bio_map admits bio b in this step, and b is a read of a block that
\* has a mapping.
MapsMappedRead(b) ==
  /\ admitted' = admitted + 1
  /\ b = admitted'
  /\ bio'[b].st \in {"queued", "issued"}
  /\ bio'[b].rw = "R"
  /\ md[bio'[b].dev][bio'[b].virt] # NoMapping

\* process_bio handles bio b in this step, and b is a read of a block that
\* has a mapping.
ProcessesMappedRead(b) ==
  /\ wpc = "deferred"
  /\ wbios # <<>>
  /\ b = Head(wbios)
  /\ wbios' = Tail(wbios)
  /\ wpc' = "deferred"
  /\ bio[b].rw = "R"
  /\ md[bio[b].dev][bio[b].virt] # NoMapping

\* The step allocates no data block, sets up no new_mapping and inserts
\* nothing.
NothingProvisioned ==
  /\ md' = md
  /\ sm' = sm
  /\ nalloc' = nalloc
  /\ inserted' = inserted
  /\ \A m \in MapIds :
        nm'[m] = nm[m] \/ nm'[m] = [FreeMapping EXCEPT !.st = "next"]

\* C23: handling a read of a mapped block, shared or not, allocates no data
\* block, sets up no new_mapping and inserts nothing: the mappings and the
\* free blocks are as before; when the read is issued it goes to the block
\* the metadata records.
C23_MappedReadChangesNothing ==
  [][\A b \in BioIds :
        MapsMappedRead(b) \/ ProcessesMappedRead(b)
        => /\ NothingProvisioned
           /\ bio'[b].st = "issued"
              => bio'[b].blk = md[bio'[b].dev][bio'[b].virt].block]_vars

\* A read of a shared block is under way to the block the metadata records,
\* and nothing was ever allocated.
C23_Witness ==
  /\ nalloc = 0
  /\ \E b \in BioIds :
        /\ bio[b].st = "issued"
        /\ bio[b].rw = "R"
        /\ bio[b].hook = "shared"
        /\ bio[b].blk = md[bio[b].dev][bio[b].virt].block

\* C24: a bio with REQ_FLUSH or REQ_FUA is never remapped by thin_bio_map
\* but put on the deferred list; it is under way to the data device only
\* after dm_pool_commit_metadata succeeded in the remap_and_issue that
\* issued it; when that commit fails the bio is not issued, and the next
\* thing that happens to it is its failure.
C24_FlushAfterCommit ==
  [][\A b \in BioIds :
        /\ admitted' = admitted + 1 /\ b = admitted' /\ bio'[b].flush
           => /\ bio'[b].st = "queued"
              /\ deferred_bios' = Append(deferred_bios, b)
        /\ bio'[b].st = "issued" /\ bio'[b].flush
           => bio'[b].commit = "ok"
        /\ bio[b].st = "queued" /\ bio[b].flush
           => bio[b].commit = "none"
        /\ bio'[b].commit = "failed"
           => /\ bio'[b].st = "held"
              /\ nm'[bio'[b].ptr].st = "active" => nm'[bio'[b].ptr].err
        /\ bio[b].commit = "failed" /\ bio'[b] # bio[b]
           => bio'[b].st = "err"]_vars

\* A flush is under way to the data device after a commit, and the commit
\* for another flush has failed.
C24_Witness ==
  \E b1, b2 \in BioIds :
     /\ bio[b1].st = "issued"
     /\ bio[b1].flush
     /\ bio[b1].commit = "ok"
     /\ bio[b2].commit = "failed"
     /\ bio[b2].st = "held"

\* Some mapping of the view of the last commit points to data block k.
CommittedViewMaps(k) ==
  \E d \in Devs, v \in Virts : disk.md[d][v].block = k

\* No write for a block that was provisioned or unshared since the last
\* commit, and no copy or zero of kcopyd, goes to a data block that a mapping
\* of the committed view points to.
WritesMissCommittedBlocks ==
  /\ \A b \in BioIds :
        /\ bio[b].st = "issued"
        /\ bio[b].rw = "W"
        /\ \/ bio[b].hook = "overwrite"
           \/ md[bio[b].dev][bio[b].virt] # disk.md[bio[b].dev][bio[b].virt]
        => ~CommittedViewMaps(bio[b].blk)
  /\ \A m \in MapIds :
        nm[m].st = "active" /\ nm[m].job \in {"copy", "zero"}
        => ~CommittedViewMaps(nm[m].data_block)

\* C25: the view an unclean stop leaves behind is the one of the last
\* commit: a mapping inserted since then is not in it and its data block is
\* free in it, and no write for a block provisioned or unshared since then
\* goes to a block that view maps.
C25_CrashKeepsCommittedView ==
  /\ \A d \in Devs, v \in Virts :
        md[d][v] # disk.md[d][v]
        => /\ ~CommittedViewMaps(md[d][v].block)
           /\ disk.sm[md[d][v].block] = 0
  /\ WritesMissCommittedBlocks

\* C26: while the kernel runs, the reference count of a live pool is the
\* number of pool targets and thin targets that point to it, and nothing
\* points to a pool that was destroyed.
C26_CountIsHolders ==
  \A p \in PoolObjs :
     life.oops = "" =>
     /\ life.pool[p].st = "live" => life.pool[p].ref_count = Holders(life, p)
     /\ life.pool[p].st = "freed" => Holders(life, p) = 0

\* C27: whenever a thin instance is destroyed while the metadata of its pool
\* is open, its thin device is closed while that metadata is still open.
C27_SubtreeClosedFirst ==
  [][\A i \in Thins :
       (/\ life.tc[i].pool # NULL
        /\ life.pool[life.tc[i].pool].pmd = "open"
        /\ life'.tc[i].pool = NULL)
       => life'.tc[i].td = "closed"]_vars

\* The step is a call of the deferred set of the kind op.
DsCall(op) == dsh'.n # dsh.n /\ dsh'.op = op

\* How many slots after the sweeper slot i is.
AfterSweeper(i) ==
  (i + DEFERRED_SET_SIZE - ds.sweeper) % DEFERRED_SET_SIZE

\* The slots before current_entry that a ds_dec on entry passes: those with
\* no count left in them and in every slot from the sweeper up to them.
PassedSlots(entry) ==
  LET count == [ds.count EXCEPT ![entry] = @ - 1]
  IN {i \in Slots :
        /\ AfterSweeper(i) < AfterSweeper(ds.current_entry)
        /\ \A j \in Slots :
              AfterSweeper(j) <= AfterSweeper(i) => count[j] = 0}

\* C28: ds_dec takes one from the count of its entry, moves the sweeper over
\* the slots from it on that have no count left, not beyond current_entry,
\* and returns the work of exactly the slots it passed, with the work of
\* the current slot when the sweeper ends there and that slot has no count
\* left; the work of every other slot stays where it is.
C28_DecReturnsSweptWork ==
  [][DsCall("dec") =>
       LET entry == dsh'.arg
           count == [ds.count EXCEPT ![entry] = @ - 1]
           passed == PassedSlots(entry)
           sweeper == (ds.sweeper + Cardinality(passed)) % DEFERRED_SET_SIZE
           drained == passed \cup
                      (IF sweeper = ds.current_entry /\ count[sweeper] = 0
                       THEN {sweeper} ELSE {})
       IN /\ ds'.count = count
          /\ ds'.sweeper = sweeper
          /\ ds'.current_entry = ds.current_entry
          /\ Range(dsh'.head) =
               UNION {Range(ds.work_items[i]) : i \in drained}
          /\ Cardinality(Range(dsh'.head)) = Len(dsh'.head)
          /\ \A i \in Slots :
                ds'.work_items[i] =
                  IF i \in drained THEN <<>> ELSE ds.work_items[i]]_vars

\* A ds_dec has returned the work of a slot it passed together with the
\* work of the current slot.
C28_Witness ==
  /\ dsh.op = "dec"
  /\ \E w \in Range(dsh.head) : dsh.works[w].slot = ds.current_entry
  /\ \E w \in Range(dsh.head) : dsh.works[w].slot # ds.current_entry
  /\ \E k \in DOMAIN dsh.reads : dsh.reads[k].st = "done"

\* C29: ds_add_work returns 0 and changes nothing when the sweeper is at
\* current_entry and the current slot has no count; otherwise it returns 1,
\* the work joins the work of the current slot, and current_entry moves to
\* the next slot exactly when that slot has no count.
C29_AddWork ==
  [][DsCall("add") =>
       LET work == dsh'.arg
           current == ds.current_entry
           next == (current + 1) % DEFERRED_SET_SIZE
       IN IF ds.sweeper = current /\ ds.count[current] = 0
          THEN dsh'.r = 0 /\ ds' = ds
          ELSE /\ dsh'.r = 1
               /\ Range(ds'.work_items[current]) =
                    Range(ds.work_items[current]) \cup {work}
               /\ Len(ds'.work_items[current]) =
                    Len(ds.work_items[current]) + 1
               /\ \A i \in Slots \ {current} :
                     ds'.work_items[i] = ds.work_items[i]
               /\ ds'.count = ds.count
               /\ ds'.sweeper = ds.sweeper
               /\ ds'.current_entry =
                    IF ds.count[next] = 0 THEN next ELSE current]_vars

\* ds_add_work has taken a work and moved current_entry, and has then taken
\* one into a slot that has work already, with current_entry staying because
\* the next slot has a count.
C29_Witness ==
  /\ dsh.op = "add"
  /\ dsh.r = 1
  /\ ~dsh.works[dsh.arg].advanced
  /\ Len(ds.work_items[ds.current_entry]) > 1
  /\ \E w \in DOMAIN dsh.works : dsh.works[w].advanced

\* The reads that called ds_inc before the work w was added and for which
\* ds_dec has not been called.
EarlierReads(w) ==
  {k \in DOMAIN dsh.reads :
     dsh.reads[k].t < dsh.works[w].t /\ dsh.reads[k].st = "in"}

\* C30: a work that ds_add_work took with current_entry moving on waits
\* exactly as long as a read that was counted before it is in flight: the
\* ds_dec of the last of these reads returns it, whatever reads were counted
\* after it.
C30_OnlyEarlierReadsDelay ==
  \A w \in DOMAIN dsh.works :
     dsh.works[w].advanced =>
       /\ dsh.works[w].st \in {"waiting", "returned"}
       /\ dsh.works[w].st = "waiting" <=> EarlierReads(w) # {}

\* A work was returned while two reads counted after it are in flight.
C30_Witness ==
  \E w \in DOMAIN dsh.works :
     /\ dsh.works[w].advanced
     /\ dsh.works[w].st = "returned"
     /\ dsh.op = "dec"
     /\ w \in Range(dsh.head)
     /\ Cardinality({k \in DOMAIN dsh.reads :
                       /\ dsh.reads[k].st = "in"
                       /\ dsh.reads[k].t > dsh.works[w].t}) >= 2

\* The slots from the sweeper to current_entry, both included.
RingInterval ==
  {i \in Slots : AfterSweeper(i) <= AfterSweeper(ds.current_entry)}

\* The sweeper stands on a slot with a count unless it stands on
\* current_entry, and the slots outside the interval are empty.
RingInvariant ==
  /\ ds.sweeper # ds.current_entry => ds.count[ds.sweeper] # 0
  /\ \A i \in Slots \ RingInterval :
        ds.count[i] = 0 /\ ds.work_items[i] = <<>>

\* C31: after any calls of ds_inc, ds_dec and ds_add_work, more ds_add_work
\* calls than there are slots included: the sweeper stands on a slot with a
\* count unless it stands on current_entry, every slot outside the interval
\* from the sweeper to current_entry has no count and no work, and
\* current_entry never moves onto the sweeper.
C31_RingInvariant ==
  /\ []RingInvariant
  /\ [][ds'.current_entry # ds.current_entry =>
          /\ ds'.current_entry = (ds.current_entry + 1) % DEFERRED_SET_SIZE
          /\ ds'.current_entry # ds.sweeper
          /\ ds'.current_entry # ds'.sweeper]_vars

\* The ring is full: more works than slots were handed over with reads in
\* flight, every slot has a count and work, and the last ds_add_work left
\* current_entry where it was, one slot before the sweeper.
C31_Witness ==
  /\ Len(dsh.works) > DEFERRED_SET_SIZE
  /\ dsh.op = "add"
  /\ dsh.r = 1
  /\ ~dsh.works[dsh.arg].advanced
  /\ (ds.current_entry + 1) % DEFERRED_SET_SIZE = ds.sweeper
  /\ \A i \in Slots : ds.count[i] > 0 /\ ds.work_items[i] # <<>>
  /\ \A w \in DOMAIN dsh.works : dsh.works[w].st = "waiting"

\* The reads for which ds_inc was called and ds_dec was not.
ReadsInFlight == {k \in DOMAIN dsh.reads : dsh.reads[k].st = "in"}

\* C32: ds_add_work returns 0 exactly when no read is in flight, that is
\* when every slot has count 0.
C32_NoBarrierIffNoRead ==
  [][DsCall("add") =>
       /\ dsh'.r = 0 <=> \A i \in Slots : ds.count[i] = 0
       /\ dsh'.r = 0 <=> ReadsInFlight = {}]_vars

\* ds_add_work has refused a work after reads had come and gone and works
\* had been returned, with the sweeper away from slot 0.
C32_Witness ==
  /\ dsh.op = "add"
  /\ dsh.r = 0
  /\ ds.sweeper # 0
  /\ Len(dsh.reads) >= 2
  /\ \E w \in DOMAIN dsh.works : dsh.works[w].st = "returned"

\* The works a slot of the deferred set holds.
WorkHeld == UNION {Range(ds.work_items[i]) : i \in Slots}

\* The w-th ds_add_work was made and its work is in the state st.
WorkIs(w, st) == w \in DOMAIN dsh.works /\ dsh.works[w].st = st

\* C33: when every read that called ds_inc comes to call ds_dec, every work
\* ds_add_work took is returned by a later ds_dec, and by one only: whenever
\* works wait there comes a state where none waits (a work stops waiting
\* only by being returned), the works that wait are those the slots hold, a
\* ds_dec returns only works that were waiting and each once, and no work
\* is left in a slot when every count is 0.
C33_WaiterReturnedOnce ==
  /\ (\E w \in 1..NWorks : WorkIs(w, "waiting"))
       ~> (\A w \in 1..NWorks : ~WorkIs(w, "waiting"))
  /\ [](\A w \in DOMAIN dsh.works :
           dsh.works[w].st = "waiting" <=> w \in WorkHeld)
  /\ []((\A i \in Slots : ds.count[i] = 0) => WorkHeld = {})
  /\ [][DsCall("dec") =>
          /\ \A w \in Range(dsh'.head) : dsh.works[w].st = "waiting"
          /\ Cardinality(Range(dsh'.head)) = Len(dsh'.head)]_vars

\* Every read has ended and each of the works that were taken, three at
\* least, has been returned.
C33_Witness ==
  /\ Len(dsh.works) = NWorks
  /\ ReadsInFlight = {}
  /\ Len(dsh.reads) >= 3
  /\ Cardinality({w \in DOMAIN dsh.works :
                    dsh.works[w].st = "returned"}) >= 3

\* The new_mapping m is linked to a slot of the deferred set.
HeldByDs(m) == \E i \in Slots : m \in Range(ds.work_items[i])

\* The data operation of m is done and the deferred set has let go of m.
ReadyToInsert(m) == nm[m].prepared /\ ~HeldByDs(m)

\* C34: a new_mapping on the prepared list has its data operation done
\* (prepared is set) and is not linked to a slot of the deferred set.
C34_PreparedAndReleased ==
  \A m \in Range(prepared_mappings) : ReadyToInsert(m)

\* The later of the two events, the end of the data operation and the
\* release by the deferred set, puts the mapping on the prepared list and
\* wakes the worker.
LastEventAddsMapping ==
  [][\A m \in MapIds :
       (/\ nm[m].st = "active" /\ nm'[m].st = "active"
        /\ nm'[m].serial = nm[m].serial
        /\ ~ReadyToInsert(m)
        /\ ReadyToInsert(m)')
       => m \in Range(prepared_mappings') /\ wake']_vars

\* C35: a new_mapping that was given back to the mapping pool is linked
\* neither to a slot of the deferred set nor to the prepared list nor to
\* the list the worker is going through.
C35_FreedMappingUnlinked ==
  \A m \in MapIds :
     nm[m].st \in {"free", "next"} =>
       /\ ~HeldByDs(m)
       /\ m \notin Range(prepared_mappings)
       /\ m \notin Range(wmaps)

\* The mappings of the metadata that point to the data block x.
MappedTo(x) ==
  {dv \in Devs \X Virts : md[dv[1]][dv[2]].block = x}

\* The write b, in flight, goes to a block that only its own mapping points
\* to and that is not shared, or to a new block that no mapping points to
\* yet and that b overwrites for the new_mapping that will install it.
WriteLeavesSharedAlone(b) ==
  LET x == bio[b].blk
  IN \/ /\ MappedTo(x) = {<<bio[b].dev, bio[b].virt>>}
        /\ ~md[bio[b].dev][bio[b].virt].shared
     \/ /\ MappedTo(x) = {}
        /\ \E m \in MapIds :
              /\ nm[m].st = "active"
              /\ nm[m].bio = b
              /\ nm[m].data_block = x
              /\ nm[m].dev = bio[b].dev
              /\ nm[m].virt_block = bio[b].virt

\* C36: no write in flight goes to a block the metadata reports as shared;
\* a write to a shared block goes to a newly allocated block when it covers
\* the block, and else waits in a cell until the copy is done and the new
\* mapping is installed, and then goes to the new block.
C36_NoWriteToSharedBlock ==
  /\ \A b \in BioIds :
        bio[b].st = "issued" /\ bio[b].rw = "W" => WriteLeavesSharedAlone(b)
  /\ \A b \in BioIds, m \in MapIds :
        /\ nm[m].st = "active" /\ nm[m].job \in {"copy", "done"}
        /\ bio[b].st \in {"queued", "issued"} /\ bio[b].rw = "W"
        /\ bio[b].dev = nm[m].dev /\ bio[b].virt = nm[m].virt_block
        /\ md[bio[b].dev][bio[b].virt].shared
        => bio[b].st = "queued"

\* A write to part of the shared block 0 has waited for the copy and the
\* insertion and is in flight to the new block, while the other device
\* still maps block 0 as shared.
C36_Witness ==
  \E i \in 1..Len(inserted), b \in BioIds, d \in Devs :
     /\ inserted[i].job = "done"
     /\ inserted[i].virt = 0
     /\ inserted[i].dev = bio[b].dev
     /\ bio[b].st = "issued"
     /\ bio[b].rw = "W"
     /\ ~bio[b].covers
     /\ bio[b].virt = 0
     /\ bio[b].blk = inserted[i].data
     /\ bio[b].blk # 0
     /\ d # bio[b].dev
     /\ md[d][0] = [block |-> 0, shared |-> TRUE]

\* The pool with the bio b as the host submits it.
Submitted(b, dev, virt, rw, covers, flush) ==
  [Pool EXCEPT !.bio[b] =
     [NewBio EXCEPT !.st = "queued", !.dev = dev, !.virt = virt, !.rw = rw,
                    !.covers = covers, !.flush = flush]]

\* C37: whatever bio the host submits next, thin_bio_map remaps it inline
\* exactly when the lookup does not block and finds a mapping that is not
\* shared and the bio has neither REQ_FLUSH nor REQ_FUA; in every other
\* case it adds the bio once to the end of the deferred list and wakes the
\* worker, and changes nothing else.
C37_FastPathMap ==
  admitted < NBios /\ oops = "" =>
    \A dev \in Devs, virt \in Virts, rw \in {"R", "W"}, covers \in BOOLEAN,
       flush \in BOOLEAN, wb \in BOOLEAN :
       LET b == admitted + 1
           P0 == Submitted(b, dev, virt, rw, covers, flush)
           P1 == thin_bio_map(P0, b, wb, "none")
           result == md[dev][virt]
       IN IF ~flush /\ ~wb /\ result # NoMapping /\ ~result.shared
          THEN P1 = [P0 EXCEPT !.bio[b].st = "issued",
                               !.bio[b].blk = result.block]
          ELSE /\ P1 = [P0 EXCEPT !.deferred_bios = Append(@, b),
                                  !.wake = TRUE]
               /\ Occurrences(P1.deferred_bios, b) = 1
               /\ P1.bio[b].st = "queued"
               /\ P1.bio[b].blk = NoBlock

\* The last bio the host submitted was remapped inline to the block a bio
\* before it had provisioned: the worker has not handled a bio since it gave
\* its spare new_mapping away.
C37_Witness ==
  /\ admitted = 2
  /\ bio[2].st = "issued"
  /\ bio[2].hook = "none"
  /\ ~bio[2].flush
  /\ md[bio[2].dev][bio[2].virt] = [block |-> bio[2].blk, shared |-> FALSE]
  /\ next_mapping = NULL
  /\ nalloc = 1
  /\ Len(inserted) = 1
  /\ deferred_bios = <<>>

\* C38: the assertions of cell_release_singleton never fail: at every call
\* the worker makes, the cell holds the bio that is passed in and no other.
C38_SingletonHolds == oops # "cell_release_singleton"

\* A read of a shared block is in flight, after the worker released the cell
\* of its virtual block and the cell of its data block with
\* cell_release_singleton, while a write to the same block waits in a cell
\* for its copy.
C38_Witness ==
  \E b \in BioIds, w \in BioIds, c \in CellIds :
     /\ oops = ""
     /\ bio[b].st = "issued"
     /\ bio[b].hook = "shared"
     /\ CellsOf(b) = {}
     /\ bio[w].rw = "W"
     /\ bio[w].dev = bio[b].dev
     /\ bio[w].virt = bio[b].virt
     /\ InTable(c)
     /\ cells[c].bios = <<w>>

\* C39: get_next_mapping never finds next_mapping empty (its BUG_ON never
\* fires) when schedule_copy or schedule_zero takes the spare new_mapping,
\* and a step of the worker takes one new_mapping at most.
C39_SpareMappingReady ==
  /\ [](oops # "get_next_mapping")
  /\ [][nalloc' # nalloc =>
          /\ nalloc' = nalloc + 1
          /\ next_mapping' = NULL
          /\ wpc = "deferred"]_vars

\* The worker has taken the spare new_mapping for a copy and, after that one
\* went back to the pool, for a second request.
C39_Witness ==
  /\ oops = ""
  /\ nalloc = 2
  /\ next_mapping = NULL
  /\ \E i \in 1..Len(inserted) : inserted[i].job = "done"
  /\ \E m \in MapIds : nm[m].st = "active" /\ nm[m].serial = 2

\* The powers of two a bucket count may be.
PowersOfTwo == {2^k : k \in 0..(MaxShift + 2)}

\* What calc_nr_buckets must reach: min(n / 4, 8192), and 128.
Wanted(n) == {Min({n \div 4, MAX_BUCKETS}), MIN_BUCKETS}

\* C40: for every requested cell count n, calc_nr_buckets returns the
\* smallest power of two that is at least min(n / 4, 8192) and at least 128,
\* hence a power of two from 128 to 8192, and hash_key always returns a
\* bucket index strictly below that bucket count.
C40_BucketsAndHash ==
  /\ hsh.op # "none" =>
       /\ hsh.nr_buckets \in PowersOfTwo
       /\ \A w \in Wanted(hsh.nr_cells) : hsh.nr_buckets >= w
       /\ \A p \in PowersOfTwo :
            (\A w \in Wanted(hsh.nr_cells) : p >= w) => hsh.nr_buckets <= p
       /\ hsh.nr_buckets >= MIN_BUCKETS
       /\ hsh.nr_buckets <= MAX_BUCKETS
       /\ hsh.hash_mask = hsh.nr_buckets - 1
  /\ hsh.op = "hash_key" =>
       /\ hsh.hash >= 0
       /\ hsh.hash < hsh.nr_buckets

\* A prison asked for 2049 cells has 512 buckets, and the last block of the
\* device hashed to bucket 5 of them.
C40_Witness ==
  /\ hsh.op = "hash_key"
  /\ hsh.nr_cells = 2049
  /\ hsh.nr_buckets = 512
  /\ hsh.block = <<255, 255, 255, 255, 255, 255, 255, 255>>
  /\ hsh.hash = 5

====
